---- MODULE Spec2Model ----
(***************************************************************************)
(* Market-maker simulator (aggregator.rs, trader.rs, pnl_tracker.rs,       *)
(* main.rs): the shared multi-venue price store, the aggregate statistics  *)
(* derived from a snapshot of it, the trading engine and the PnL tracker.  *)
(*                                                                         *)
(* An f64 is a record [k, s, m, e]: k = "num" is the finite value          *)
(* (-1)^s * m * 2^e, k = "inf" the infinity of sign s, k = "nan" a NaN.    *)
(* The significand m is a natural number written in base 32768, lowest     *)
(* digit first (<<>> is zero): 2^52 <= m < 2^53 for a normal value, less   *)
(* for a subnormal one (e = -1074), <<>> for 0.0 (s = 0) and -0.0 (s = 1). *)
(* +, -, * and / round to the nearest f64, ties to even, as IEEE 754       *)
(* binary64 does.                                                          *)
(***************************************************************************)
EXTENDS Integers, Sequences, FiniteSets, TLC

VARIABLES
    prices,        \* PriceAggregator.prices: the latest quote of each venue, or None
    written,       \* history: the quote of the last completed write to each venue
    binance,       \* where the binance_stream task is
    trading_engine, \* main: the TradingEngine (notional_per_trade, use_advanced_model)
    pc,            \* where main is
    runtime,       \* the tokio runtime of #[tokio::main]: running, or dropped
    cycle_count,   \* main: cycle_count
    snap,          \* main: the snapshot of this cycle (let prices)
    trade,         \* main: the result of the last attempt_trade
    stats,         \* PnLTracker.stats
    trades,        \* PnLTracker.trades, the ledger
    recent,        \* main: recent_trades
    backoff,       \* binance_stream: the seconds of the sleep it last began
    stats_lock,    \* PnLTracker.stats: the RwLock around the stats
    trades_lock,   \* PnLTracker.trades: the RwLock around the ledger
    task,          \* the tasks that call the tracker: where each one is
    history,       \* history: the stats after each completed record_trade
    arg,           \* the input of a function applied on its own
    ret            \* its result

\* the locks of the tracker and the tasks that take them
lockvars == <<stats_lock, trades_lock, task>>

sysvars == <<prices, written, binance, trading_engine, pc, runtime,
             cycle_count, snap, trade, stats, trades, recent, backoff, lockvars, history>>

vars == <<sysvars, arg, ret>>

\* the element of a set of one element: The({body : x \in {e}}) is body for x the
\* value of e, which is computed once
The(S) == CHOOSE r \in S : TRUE

\* the function f with every value computed
Table(f) == f @@ <<>>

\* the sequence f[1], ..., f[n] of a function f on 1..n, every element computed
SeqOf(f) == f \o <<>>

Max(a, b) == IF a >= b THEN a ELSE b

Min(a, b) == IF a <= b THEN a ELSE b

\* the largest element of a finite set of integers
MaxOf(S) == CHOOSE x \in S : \A y \in S : y <= x

\* ------------------------------------------------- numbers of any size

\* a natural number is the sequence of its digits in base Base, the lowest first,
\* without a zero at the top; zero is the empty sequence
LimbBits == 15

Base == 32768

\* a without the zeros at its top
BTrim(a) == SubSeq(a, 1, MaxOf({0} \cup {i \in 1..Len(a) : a[i] # 0}))

\* a natural number of the machine, below Base^3
BFromNat(i) == BTrim(<<i % Base, (i \div Base) % Base, i \div (Base * Base)>>)

\* the limb i of a, zero outside a
Limb(a, i) == IF i >= 1 /\ i <= Len(a) THEN a[i] ELSE 0

BLtAt(a, b, i) == a[i] < b[i]

\* a < b: a has fewer limbs, or as many and the smaller one at the highest limb
\* where they differ
BLt(a, b) ==
    \/ Len(a) < Len(b)
    \/ /\ Len(a) = Len(b)
       /\ a # b
       /\ BLtAt(a, b, MaxOf({i \in 1..Len(a) : a[i] # b[i]}))

\* -1, 0 or 1 as a < b, a = b or a > b
BCmp(a, b) == IF BLt(a, b) THEN -1 ELSE IF BLt(b, a) THEN 1 ELSE 0

\* the carry into place i of the sums t, each below 2 * Base, the top one below
\* Base: a place below i overflows, and every place between that one and i passes
\* the carry on
BCarry(t, i) ==
    IF \E j \in 1..(i - 1) :
          t[j] >= Base /\ \A k \in (j + 1)..(i - 1) : t[k] = Base - 1
    THEN 1 ELSE 0

\* the number whose place i holds t[i]
BCarried(t) == BTrim(SeqOf([i \in 1..Len(t) |-> (t[i] + BCarry(t, i)) % Base]))

\* a + b
BAdd(a, b) ==
    BCarried(SeqOf([i \in 1..(Max(Len(a), Len(b)) + 1) |-> Limb(a, i) + Limb(b, i)]))

\* the borrow from place i of the differences t of the limbs: a place below i is
\* negative, and every place between that one and i is zero
BBorrow(t, i) ==
    IF \E j \in 1..(i - 1) : t[j] < 0 /\ \A k \in (j + 1)..(i - 1) : t[k] = 0
    THEN 1 ELSE 0

BBorrowed(t) == BTrim(SeqOf([i \in 1..Len(t) |-> (t[i] - BBorrow(t, i) + Base) % Base]))

\* a - b, for a >= b
BSub(a, b) == BBorrowed(SeqOf([i \in 1..Len(a) |-> a[i] - Limb(b, i)]))

\* a * k, for 0 <= k < Base: at each place the low half of the product of the limb
\* and the high half of the product of the limb below
BMulSmall(a, k) ==
    BCarried(SeqOf([i \in 1..(Len(a) + 1) |->
                       ((Limb(a, i) * k) % Base) + ((Limb(a, i - 1) * k) \div Base)]))

\* a * Base^n
BUpBy(a, n) == IF a = <<>> THEN a ELSE SeqOf([i \in 1..n |-> 0]) \o a

\* a times the limbs lo to hi of b, each at its place
RECURSIVE BMulRange(_, _, _, _)
BMulRange(a, b, lo, hi) ==
    IF lo = hi THEN BUpBy(BMulSmall(a, b[lo]), lo - 1)
    ELSE BAdd(BMulRange(a, b, lo, (lo + hi) \div 2),
              BMulRange(a, b, ((lo + hi) \div 2) + 1, hi))

BMul(a, b) == IF a = <<>> \/ b = <<>> THEN <<>> ELSE BMulRange(a, b, 1, Len(b))

\* a * 2^bits, for bits < LimbBits
BShlBits(a, bits) ==
    BTrim(SeqOf([i \in 1..(Len(a) + 1) |->
                    ((Limb(a, i) * (2 ^ bits)) % Base)
                    + ((Limb(a, i - 1) * (2 ^ bits)) \div Base)]))

\* a * 2^k
BShl(a, k) == BUpBy(BShlBits(a, k % LimbBits), k \div LimbBits)

\* the binary digit k of a, the lowest being digit 0
BBit(a, k) == (Limb(a, (k \div LimbBits) + 1) \div (2 ^ (k % LimbBits))) % 2

\* the binary digits of a below digit k are zeros
BLowZero(a, k) ==
    /\ \A i \in 1..(k \div LimbBits) : Limb(a, i) = 0
    /\ Limb(a, (k \div LimbBits) + 1) % (2 ^ (k % LimbBits)) = 0

\* the limbs from limb + 1 of a, the lowest bits binary digits dropped
BShrAt(a, limbs, bits) ==
    BTrim(SeqOf([i \in 1..(Len(a) - limbs) |->
                    (a[i + limbs] \div (2 ^ bits))
                    + (Limb(a, i + limbs + 1) % (2 ^ bits)) * (2 ^ (LimbBits - bits))]))

\* a \div 2^k
BShr(a, k) == IF k \div LimbBits >= Len(a) THEN <<>> ELSE BShrAt(a, k \div LimbBits, k % LimbBits)

\* the number of binary digits of x, for 0 <= x < Base
BitLenSmall(x) == CHOOSE n \in 0..LimbBits : x < 2 ^ n /\ (n = 0 \/ x >= 2 ^ (n - 1))

\* the number of binary digits of a
BBitLen(a) ==
    IF a = <<>> THEN 0 ELSE LimbBits * (Len(a) - 1) + BitLenSmall(a[Len(a)])

BIsOdd(a) == a # <<>> /\ a[1] % 2 = 1

\* the limb of the quotient r \div b, for r < b * Base and the top limb of b at
\* least Base / 2: the estimate from the top limbs is at most two too high
RECURSIVE BQuotLimb(_, _, _, _)
BQuotLimb(r, b, guess, product) ==
    IF BLt(r, product) THEN BQuotLimb(r, b, guess - 1, BMulSmall(b, guess - 1))
    ELSE [d |-> guess, product |-> product]

BQuotGuess(r, b) ==
    Min(Base - 1, (Limb(r, Len(b) + 1) * Base + Limb(r, Len(b))) \div b[Len(b)])

\* the next limb of the quotient, put below the limbs q, and what is left of r
BDivDigit(q, r, limb) == [q |-> <<limb.d>> \o q, r |-> BSub(r, limb.product)]

BDivLimb(q, r, b, guess) == BDivDigit(q, r, BQuotLimb(r, b, guess, BMulSmall(b, guess)))

\* one step of the long division: the limb x comes down to the remainder
BDivStep(st, x, b) ==
    The({BDivLimb(st.q, r, b, BQuotGuess(r, b)) : r \in {BTrim(<<x>> \o st.r)}})

\* the long division of the limbs i, i - 1, ... 1 of a by b, after the limbs above
\* them gave the quotient st.q and left st.r
RECURSIVE BDivFrom(_, _, _, _)
BDivFrom(a, b, i, st) ==
    IF i = 0 THEN st
    ELSE The({BDivFrom(a, b, i - 1, next) : next \in {BDivStep(st, a[i], b)}})

\* the division of a by b, whose top limb is at least Base / 2: the top limbs of
\* a, one fewer than b has, are below b
BDivLong(a, b, i) ==
    BDivFrom(a, b, i, [q |-> <<>>, r |-> BTrim(SubSeq(a, i + 1, Len(a)))])

BDivUnshift(st, shift) == [q |-> BTrim(st.q), r |-> BShr(st.r, shift)]

\* the division of a * 2^shift by b * 2^shift
BDivShifted(a, b, shift) ==
    The({BDivUnshift(BDivLong(as, bs, Max(0, Len(as) - (Len(bs) - 1))), shift) :
         as \in {BShl(a, shift)}, bs \in {BShl(b, shift)}})

\* the quotient and the remainder of a by b, for b # 0
BDivMod(a, b) == BDivShifted(a, b, LimbBits - BitLenSmall(b[Len(b)]))

RECURSIVE BPow10(_)
BPow10(n) ==
    IF n = 0 THEN <<1>>
    ELSE The({IF n % 2 = 1 THEN BMulSmall(BMul(h, h), 10) ELSE BMul(h, h) :
              h \in {BPow10(n \div 2)}})

\* ------------------------------------------------------------------ f64

\* the binary digits of a significand, and the exponents of the lowest binary
\* digit of the smallest and of the largest finite value
MantBits == 53

EMin == -1074

EMax == 971

Finite(s, m, e) == [k |-> "num", s |-> s, m |-> m, e |-> e]

Zero(s) == [k |-> "num", s |-> s, m |-> <<>>, e |-> 0]

Inf(s) == [k |-> "inf", s |-> s, m |-> <<>>, e |-> 0]

NaN == [k |-> "nan", s |-> 0, m |-> <<>>, e |-> 0]

IsNaN(x) == x.k = "nan"

IsInf(x) == x.k = "inf"

IsZero(x) == x.k = "num" /\ x.m = <<>>

\* the value with the significand m at exponent e, once m has at most MantBits
\* binary digits: the infinity if it is beyond the largest finite value
Pack(s, m, e) ==
    IF m = <<>> THEN Zero(s)
    ELSE IF BBitLen(m) > MantBits
    THEN (IF e + 1 > EMax THEN Inf(s) ELSE Finite(s, BShr(m, 1), e + 1))
    ELSE IF e > EMax THEN Inf(s)
    ELSE Finite(s, m, e)

\* -1, 0 or 1 as the lowest sh binary digits of m are below, at or above one half
\* of 2^sh
BHalfCmp(m, sh) ==
    IF BBit(m, sh - 1) = 0 THEN -1 ELSE IF BLowZero(m, sh - 1) THEN 0 ELSE 1

\* q with the sh binary digits that were cut off it rounded: c compares them with
\* one half
RoundTie(s, q, e, c, inexact) ==
    Pack(s, IF c > 0 \/ (c = 0 /\ (inexact \/ BIsOdd(q))) THEN BAdd(q, <<1>>) ELSE q, e)

RoundCut(s, m, q, e, sh, inexact) == RoundTie(s, q, e, BHalfCmp(m, sh), inexact)

\* m with its lowest sh binary digits rounded away
RoundBy(s, m, e, inexact, sh) ==
    IF sh <= 0 THEN Pack(s, BShl(m, -sh), e + sh)
    ELSE IF sh > BBitLen(m) THEN Zero(s)
    ELSE RoundCut(s, m, BShr(m, sh), e + sh, sh, inexact)

\* the f64 nearest to (-1)^s * (m + rest) * 2^e, ties to the even significand;
\* inexact says that a rest in (0, 1) was left out of m. A value below half the
\* smallest subnormal is zero.
Round(s, m, e, inexact) ==
    IF m = <<>> THEN Zero(s)
    ELSE RoundBy(s, m, e, inexact, Max(BBitLen(m) - MantBits, EMin - e))

\* an integer of the program as f64
FromInt(i) == Round(IF i < 0 THEN 1 ELSE 0, BFromNat(IF i < 0 THEN -i ELSE i), 0, FALSE)

FNeg(x) == IF IsNaN(x) THEN x ELSE [x EXCEPT !.s = 1 - @]

\* -1, 0 or 1 as |a| < |b|, |a| = |b| or |a| > |b|, for finite a and b
MagCmp(a, b) ==
    IF a.m = <<>> /\ b.m = <<>> THEN 0
    ELSE IF a.m = <<>> THEN -1
    ELSE IF b.m = <<>> THEN 1
    ELSE IF a.e < b.e THEN -1
    ELSE IF a.e > b.e THEN 1
    ELSE BCmp(a.m, b.m)

\* (-1)^sa * ma * 2^e + (-1)^sb * mb * 2^e; c compares ma with mb
FAddAligned(sa, ma, sb, mb, e, c) ==
    IF sa = sb THEN Round(sa, BAdd(ma, mb), e, FALSE)
    ELSE IF c = 0 THEN Zero(0)
    ELSE Round(IF c > 0 THEN sa ELSE sb, IF c > 0 THEN BSub(ma, mb) ELSE BSub(mb, ma), e, FALSE)

FAddMant(sa, ma, sb, mb, e) == FAddAligned(sa, ma, sb, mb, e, BCmp(ma, mb))

\* a + b of finite nonzero values, at the lower exponent e of the two
FAddAt(a, b, e) == FAddMant(a.s, BShl(a.m, a.e - e), b.s, BShl(b.m, b.e - e), e)

FAdd(a, b) ==
    IF IsNaN(a) \/ IsNaN(b) THEN NaN
    ELSE IF IsInf(a) /\ IsInf(b) THEN (IF a.s = b.s THEN a ELSE NaN)
    ELSE IF IsInf(a) THEN a
    ELSE IF IsInf(b) THEN b
    ELSE IF IsZero(a) /\ IsZero(b) THEN Zero(IF a.s = 1 /\ b.s = 1 THEN 1 ELSE 0)
    ELSE IF IsZero(a) THEN b
    ELSE IF IsZero(b) THEN a
    \* an operand below a quarter of the last binary digit of the other changes nothing
    ELSE IF a.e - b.e > MantBits + 2 THEN a
    ELSE IF b.e - a.e > MantBits + 2 THEN b
    ELSE FAddAt(a, b, IF a.e < b.e THEN a.e ELSE b.e)

FSub(a, b) == FAdd(a, FNeg(b))

FMul(a, b) ==
    IF IsNaN(a) \/ IsNaN(b) THEN NaN
    ELSE IF IsInf(a) \/ IsInf(b)
         THEN (IF IsZero(a) \/ IsZero(b) THEN NaN ELSE Inf((a.s + b.s) % 2))
    ELSE Round((a.s + b.s) % 2, BMul(a.m, b.m), a.e + b.e, FALSE)

\* the f64 nearest to (-1)^s * (n / d) * 2^e, for n # 0 and d # 0: the quotient of
\* n * 2^k by d has more than MantBits binary digits
RoundQuotient(s, qr, e) == Round(s, qr.q, e, qr.r # <<>>)

DivRoundBy(s, n, d, e, k) == RoundQuotient(s, BDivMod(BShl(n, k), d), e - k)

DivRound(s, n, d, e) == DivRoundBy(s, n, d, e, Max(0, BBitLen(d) + MantBits + 3 - BBitLen(n)))

FDiv(a, b) ==
    IF IsNaN(a) \/ IsNaN(b) THEN NaN
    ELSE IF IsInf(a) /\ IsInf(b) THEN NaN
    ELSE IF IsInf(a) THEN Inf((a.s + b.s) % 2)
    ELSE IF IsInf(b) THEN Zero((a.s + b.s) % 2)
    ELSE IF IsZero(b) THEN (IF IsZero(a) THEN NaN ELSE Inf((a.s + b.s) % 2))
    ELSE IF IsZero(a) THEN Zero((a.s + b.s) % 2)
    ELSE DivRound((a.s + b.s) % 2, a.m, b.m, a.e - b.e)

\* the f64 of the literals 0.00, 0.01, ... 1.00
Hundredths == Table([k \in 0..100 |-> FDiv(FromInt(k), FromInt(100))])

\* the f64 of the literals -10.0, -9.9, ... 10.0
Tenths == Table([k \in -100..100 |-> FDiv(FromInt(k), FromInt(10))])

\* the f64 of the literal n/d of the program text, for integers n and d # 0 that
\* f64 holds exactly: the f64 nearest to the fraction
Ratio(n, d) ==
    IF d = 100 /\ n \in 0..100 THEN Hundredths[n]
    ELSE IF d = 10 /\ n \in -100..100 THEN Tenths[n]
    ELSE FDiv(FromInt(n), FromInt(d))

\* a < b of f64: false when either side is NaN; -0.0 and 0.0 are equal
FLt(a, b) ==
    IF IsNaN(a) \/ IsNaN(b) THEN FALSE
    ELSE IF IsZero(a) /\ IsZero(b) THEN FALSE
    ELSE IF a.s # b.s THEN a.s = 1
    ELSE IF IsInf(a) /\ IsInf(b) THEN FALSE
    ELSE IF IsInf(a) THEN a.s = 1
    ELSE IF IsInf(b) THEN b.s = 0
    ELSE IF a.s = 0 THEN MagCmp(a, b) < 0
    ELSE MagCmp(a, b) > 0

FLe(a, b) == ~IsNaN(a) /\ ~IsNaN(b) /\ ~FLt(b, a)

FGt(a, b) == FLt(b, a)

FGe(a, b) == FLe(b, a)

\* f64::max, f64::min: a NaN argument is ignored in favour of the other one
FMax(a, b) == IF IsNaN(a) THEN b ELSE IF IsNaN(b) THEN a ELSE IF FLt(a, b) THEN b ELSE a

FMinAsMax(a, b) == IF IsNaN(a) THEN b ELSE IF IsNaN(b) THEN a ELSE IF FLt(a, b) THEN b ELSE a

FMin(a, b) == IF IsNaN(a) THEN b ELSE IF IsNaN(b) THEN a ELSE IF FLt(b, a) THEN b ELSE a

\* --------------------------------------------------------------- Option


None == [tag |-> "None"]

Some(x) == [tag |-> "Some", v |-> x]

\* the unwinding of a panic (Option::unwrap on None)
Panic == [tag |-> "Panic"]

IsSome(o) == o.tag = "Some"

\* ----------------------------------------------------------- aggregator

\* Vec::sort_by(|a, b| a.partial_cmp(b).unwrap()): ascending; with two or more
\* elements every element is compared, and comparing a NaN unwraps None.
RECURSIVE InsertSorted(_, _)
InsertSorted(s, x) ==
    IF s = <<>> THEN <<x>>
    ELSE IF FLt(x, Head(s)) THEN <<x>> \o s
    ELSE <<Head(s)>> \o InsertSorted(Tail(s), x)

RECURSIVE SortAsc(_)
SortAsc(s) ==
    IF Len(s) = 0 THEN <<>>
    ELSE InsertSorted(SortAsc(SubSeq(s, 1, Len(s) - 1)), s[Len(s)])

sort_by_unsorted(s) ==
    IF Len(s) >= 2 /\ \E i \in 1..Len(s) : IsNaN(s[i]) THEN Panic ELSE Some(s)

sort_by(s) ==
    IF Len(s) >= 2 /\ \E i \in 1..Len(s) : IsNaN(s[i]) THEN Panic ELSE Some(SortAsc(s))

\* the values of a sequence of Some(value)
Unwrapped(s) == SeqOf([i \in 1..Len(s) |-> s[i].v])

\* the quotes of the venues that are present, in the order binance, jupiter, cowswap
PresentQuotesNoCowswap(p) == Unwrapped(SelectSeq(<<p.binance, p.jupiter>>, IsSome))

PresentQuotes(p) == Unwrapped(SelectSeq(<<p.binance, p.jupiter, p.cowswap>>, IsSome))

RECURSIVE MaxTimestamp(_)
MaxTimestamp(ts) ==
    IF Len(ts) = 1 THEN ts[1]
    ELSE LET m == MaxTimestamp(Tail(ts))
         IN  IF ts[1] >= m THEN ts[1] ELSE m

\* v[v.len() / 2] of a zero-based vector, as a one-based index
LowerMedianIndex(len) == ((len - 1) \div 2) + 1

MedianIndex(len) == (len \div 2) + 1

\* lines 49 to 60 of median_quote: the quote made of the sorted bids and asks of
\* the present quotes qs
MedianOfSorted(qs, bids, asks) ==
    IF bids = Panic THEN Panic
    ELSE IF asks = Panic THEN Panic
    ELSE Some([bid |-> bids.v[MedianIndex(Len(qs))],
               ask |-> asks.v[MedianIndex(Len(qs))],
               timestamp |-> MaxTimestamp(SeqOf([i \in 1..Len(qs) |-> qs[i].timestamp]))])

MedianOfPresent(qs) ==
    MedianOfSorted(qs, sort_by(SeqOf([i \in 1..Len(qs) |-> qs[i].bid])),
                   sort_by(SeqOf([i \in 1..Len(qs) |-> qs[i].ask])))

median_quote_unchecked(p) ==
    IF Len(PresentQuotes(p)) = 0 THEN Panic ELSE MedianOfPresent(PresentQuotes(p))

median_quote(p) ==
    IF Len(PresentQuotes(p)) = 0 THEN None ELSE MedianOfPresent(PresentQuotes(p))

\* the loop of best_quote over the present quotes from index i on
RECURSIVE BestFold(_, _, _)
BestFold(qs, i, acc) ==
    IF i > Len(qs) THEN acc
    ELSE BestFold(qs, i + 1,
            [best_bid |-> Some(IF IsSome(acc.best_bid)
                               THEN FMax(acc.best_bid.v, qs[i].bid) ELSE qs[i].bid),
             best_ask |-> Some(IF IsSome(acc.best_ask)
                               THEN FMin(acc.best_ask.v, qs[i].ask) ELSE qs[i].ask),
             latest_timestamp |-> IF acc.latest_timestamp >= qs[i].timestamp
                                  THEN acc.latest_timestamp ELSE qs[i].timestamp])

\* the match of best_quote on what the loop has left
BestOfFold(r) ==
    IF IsSome(r.best_bid) /\ IsSome(r.best_ask)
    THEN Some([bid |-> r.best_bid.v, ask |-> r.best_ask.v, timestamp |-> r.latest_timestamp])
    ELSE None

best_quote(p) ==
    BestOfFold(BestFold(PresentQuotes(p), 1,
                        [best_bid |-> None, best_ask |-> None, latest_timestamp |-> 0]))

\* lines 104 and 105 of median_mid
MidOfSorted(qs, mids) ==
    IF mids = Panic THEN Panic ELSE Some(mids.v[MedianIndex(Len(qs))])

MidOfPresent(qs) ==
    MidOfSorted(qs, sort_by(SeqOf([i \in 1..Len(qs) |->
                                      FDiv(FAdd(qs[i].bid, qs[i].ask), FromInt(2))])))

median_mid(p) ==
    IF Len(PresentQuotes(p)) = 0 THEN None ELSE MidOfPresent(PresentQuotes(p))

\* --------------------------------------------------------------- trader

NOTIONAL_PER_TRADE == 100000

TradingEngine_new(notional_per_trade, use_advanced_model) ==
    [notional_per_trade |-> notional_per_trade, use_advanced_model |-> use_advanced_model]

\* the linear interpolation of the advanced model, with its range guard
interpolate_inverted(distance, range) ==
    IF FGt(range, FromInt(0))
    THEN FSub(Ratio(90, 100), FMul(FDiv(distance, range), Ratio(70, 100)))
    ELSE Ratio(20, 100)

interpolate(distance, range) ==
    IF FGt(range, FromInt(0))
    THEN FAdd(Ratio(20, 100), FMul(FDiv(distance, range), Ratio(70, 100)))
    ELSE Ratio(20, 100)

calculate_execution_probability_median_first(engine, our_price, median_price, best_price, side) ==
    IF ~engine.use_advanced_model THEN Ratio(70, 100)
    ELSE IF side = "Buy"
    THEN IF FLe(our_price, median_price) THEN Ratio(20, 100)
         ELSE IF FGe(our_price, best_price) THEN Ratio(90, 100)
         ELSE interpolate(FSub(our_price, median_price), FSub(best_price, median_price))
    ELSE IF FGe(our_price, median_price) THEN Ratio(20, 100)
         ELSE IF FLe(our_price, best_price) THEN Ratio(90, 100)
         ELSE interpolate(FSub(median_price, our_price), FSub(median_price, best_price))

calculate_execution_probability(engine, our_price, median_price, best_price, side) ==
    IF ~engine.use_advanced_model THEN Ratio(70, 100)
    ELSE IF side = "Buy"
    THEN IF FGe(our_price, best_price) THEN Ratio(90, 100)
         ELSE IF FLe(our_price, median_price) THEN Ratio(20, 100)
         ELSE interpolate(FSub(our_price, median_price), FSub(best_price, median_price))
    ELSE IF FLe(our_price, best_price) THEN Ratio(90, 100)
         ELSE IF FGe(our_price, median_price) THEN Ratio(20, 100)
         ELSE interpolate(FSub(median_price, our_price), FSub(median_price, best_price))

\* the arm of calculate_execution_probability that produces its value
execution_branch(engine, our_price, median_price, best_price, side) ==
    IF ~engine.use_advanced_model THEN "basic"
    ELSE IF side = "Buy"
    THEN IF FGe(our_price, best_price) THEN "best"
         ELSE IF FLe(our_price, median_price) THEN "floor"
         ELSE IF FGt(FSub(best_price, median_price), FromInt(0)) THEN "interpolation"
         ELSE "fallback"
    ELSE IF FLe(our_price, best_price) THEN "best"
         ELSE IF FGe(our_price, median_price) THEN "floor"
         ELSE IF FGt(FSub(median_price, best_price), FromInt(0)) THEN "interpolation"
         ELSE "fallback"

calculate_pnl_swapped(side, our_price, market_price, amount_eth) ==
    IF side = "Buy"
    THEN FMul(FSub(our_price, market_price), amount_eth)
    ELSE FMul(FSub(market_price, our_price), amount_eth)

calculate_pnl_unsided(side, our_price, market_price, amount_eth) ==
    FMul(FSub(market_price, our_price), amount_eth)

calculate_pnl(side, our_price, market_price, amount_eth) ==
    IF side = "Buy"
    THEN FMul(FSub(market_price, our_price), amount_eth)
    ELSE FMul(FSub(our_price, market_price), amount_eth)

\* rng.random::<f64>() < execution_prob
executed_or_equal(draw, execution_prob) == FLe(draw, execution_prob)

executed(draw, execution_prob) == FLt(draw, execution_prob)

\* lines 127 to 144: the size and the execution probability of the order
attempt_trade_priced(engine, side, our_price, market_price, median_price, best_price) ==
    Some([our_price |-> our_price,
          market_price |-> market_price,
          amount_eth |-> FDiv(engine.notional_per_trade, our_price),
          execution_prob |-> calculate_execution_probability(engine, our_price,
                                                             median_price, best_price,
                                                             side)])

\* lines 111 to 137: median and best are the results of median_quote and best_quote
attempt_trade_quoted(engine, side, median, best) ==
    IF median = Panic THEN Panic
    ELSE IF median = None THEN None
    ELSE IF best = None THEN None
    ELSE attempt_trade_priced(engine, side,
                              IF side = "Buy" THEN median.v.bid ELSE median.v.ask,
                              IF side = "Buy" THEN best.v.bid ELSE best.v.ask,
                              IF side = "Buy" THEN median.v.bid ELSE median.v.ask,
                              IF side = "Buy" THEN best.v.bid ELSE best.v.ask)

\* lines 111 to 144 of attempt_trade, all that comes before the draw: None where a
\* `?` returns, else the order
attempt_trade_order(engine, p, side) ==
    attempt_trade_quoted(engine, side, median_quote(p), best_quote(p))

\* lines 146 to 164: draw is the value of rng.random::<f64>(), ts the value of
\* Utc::now()
attempt_trade_executed(engine, side, draw, ts, order) ==
    IF order = Panic THEN Panic
    ELSE IF order = None THEN None
    ELSE IF executed(draw, order.v.execution_prob)
    THEN Some([side |-> side,
               price |-> order.v.our_price,
               amount_eth |-> order.v.amount_eth,
               notional_usd |-> engine.notional_per_trade,
               pnl |-> calculate_pnl(side, order.v.our_price, order.v.market_price,
                                     order.v.amount_eth),
               timestamp |-> ts,
               execution_prob |-> order.v.execution_prob])
    ELSE None

attempt_trade(engine, p, side, draw, ts) ==
    attempt_trade_executed(engine, side, draw, ts, attempt_trade_order(engine, p, side))

MarketSummary(median, best, mid) ==
    IF median = Panic THEN Panic
    ELSE IF median = None THEN None
    ELSE IF best = None THEN None
    ELSE IF mid = Panic THEN Panic
    ELSE IF mid = None THEN None
    ELSE Some([median_bid |-> median.v.bid,
               median_ask |-> median.v.ask,
               median_mid |-> mid.v,
               best_bid |-> best.v.bid,
               best_ask |-> best.v.ask,
               spread_bps |-> FMul(FDiv(FSub(median.v.ask, median.v.bid), mid.v),
                                   FromInt(10000))])

get_market_summary(p) == MarketSummary(median_quote(p), best_quote(p), median_mid(p))

\* ---------------------------------------------------------- pnl_tracker

PnLStats_new ==
    [total_pnl |-> FromInt(0),
     total_trades |-> 0,
     buy_trades |-> 0,
     sell_trades |-> 0,
     buy_pnl |-> FromInt(0),
     sell_pnl |-> FromInt(0),
     total_notional |-> FromInt(0),
     avg_execution_prob |-> FromInt(0)]

\* Vec::push
push_front(ledger, t) == <<t>> \o ledger

push(ledger, t) == Append(ledger, t)

\* the stats and the ledger after record_trade(t), both write locks held throughout
record_trade(st, ledger, t) ==
    LET n == st.total_trades + 1
    IN  [stats |->
            [total_pnl |-> FAdd(st.total_pnl, t.pnl),
             total_trades |-> n,
             total_notional |-> FAdd(st.total_notional, t.notional_usd),
             buy_trades |-> IF t.side = "Buy" THEN st.buy_trades + 1 ELSE st.buy_trades,
             buy_pnl |-> IF t.side = "Buy" THEN FAdd(st.buy_pnl, t.pnl) ELSE st.buy_pnl,
             sell_trades |-> IF t.side = "Sell" THEN st.sell_trades + 1 ELSE st.sell_trades,
             sell_pnl |-> IF t.side = "Sell" THEN FAdd(st.sell_pnl, t.pnl) ELSE st.sell_pnl,
             avg_execution_prob |->
                 FDiv(FAdd(FMul(st.avg_execution_prob, FromInt(n - 1)), t.execution_prob),
                      FromInt(n))],
         trades |-> push(ledger, t)]

get_stats(st) == st

get_first_trades(ledger, n) ==
    SubSeq(ledger, 1, IF Len(ledger) >= n THEN n ELSE Len(ledger))

get_recent_trades(ledger, n) ==
    LET start == IF Len(ledger) >= n THEN Len(ledger) - n ELSE 0
    IN  SubSeq(ledger, start + 1, Len(ledger))

\* the stats after the statement of record_trade at the given line
record_trade_statement_halving(line, st, t) ==
    CASE line = 65 -> [st EXCEPT !.total_pnl = FAdd(@, t.pnl)]
      [] line = 66 -> [st EXCEPT !.total_trades = @ + 1]
      [] line = 67 -> [st EXCEPT !.total_notional = FAdd(@, t.notional_usd)]
      [] line = 71 -> [st EXCEPT !.buy_trades = @ + 1]
      [] line = 72 -> [st EXCEPT !.buy_pnl = FAdd(@, t.pnl)]
      [] line = 75 -> [st EXCEPT !.sell_trades = @ + 1]
      [] line = 76 -> [st EXCEPT !.sell_pnl = FAdd(@, t.pnl)]
      [] line = 81 ->
            [st EXCEPT !.avg_execution_prob = FDiv(FAdd(@, t.execution_prob), FromInt(2))]

record_trade_statement(line, st, t) ==
    CASE line = 65 -> [st EXCEPT !.total_pnl = FAdd(@, t.pnl)]
      [] line = 66 -> [st EXCEPT !.total_trades = @ + 1]
      [] line = 67 -> [st EXCEPT !.total_notional = FAdd(@, t.notional_usd)]
      [] line = 71 -> [st EXCEPT !.buy_trades = @ + 1]
      [] line = 72 -> [st EXCEPT !.buy_pnl = FAdd(@, t.pnl)]
      [] line = 75 -> [st EXCEPT !.sell_trades = @ + 1]
      [] line = 76 -> [st EXCEPT !.sell_pnl = FAdd(@, t.pnl)]
      [] line = 81 ->
            [st EXCEPT !.avg_execution_prob =
                FDiv(FAdd(FMul(@, FromInt(st.total_trades - 1)), t.execution_prob),
                     FromInt(st.total_trades))]

\* the line of the statement that follows the one at the given line
record_trade_next_one_arm(line, t) ==
    CASE line = 65 -> 66
      [] line = 66 -> 67
      [] line = 67 -> 71
      [] line = 71 -> 72
      [] line = 72 -> 81
      [] line = 75 -> 76
      [] line = 76 -> 81
      [] line = 81 -> 85

record_trade_next(line, t) ==
    CASE line = 65 -> 66
      [] line = 66 -> 67
      [] line = 67 -> IF t.side = "Buy" THEN 71 ELSE 75
      [] line = 71 -> 72
      [] line = 72 -> 81
      [] line = 75 -> 76
      [] line = 76 -> 81
      [] line = 81 -> 85

\* tokio::sync::RwLock: the task that holds it for writing, the tasks that hold it
\* for reading, and the requests that wait, first come first served
RwLock_new == [writer |-> 0, readers |-> {}, waiting |-> <<>>]

\* the requests at the head of the queue that the lock can serve are served
RECURSIVE grant(_)
grant(l) ==
    IF l.waiting = <<>> \/ l.writer # 0 THEN l
    ELSE IF Head(l.waiting).mode = "read"
    THEN grant([l EXCEPT !.readers = @ \cup {Head(l.waiting).task},
                         !.waiting = Tail(@)])
    ELSE IF l.readers = {}
    THEN [l EXCEPT !.writer = Head(l.waiting).task, !.waiting = Tail(@)]
    ELSE l

\* RwLock::read() and RwLock::write() by task t: the request joins the queue and is
\* served at once if the lock allows it
read(l, t) == grant([l EXCEPT !.waiting = Append(@, [task |-> t, mode |-> "read"])])

write(l, t) == grant([l EXCEPT !.waiting = Append(@, [task |-> t, mode |-> "write"])])

\* .await of the request is over: t holds the guard
holds_read_unchecked(l, t) == TRUE

holds_read(l, t) == t \in l.readers

holds_write(l, t) == l.writer = t

\* the guard is dropped
release_read(l, t) == grant([l EXCEPT !.readers = @ \ {t}])

release_write_keep(l, t) == l

release_write(l, t) == grant([l EXCEPT !.writer = 0])

\* ------------------------------------------------------ the price store

AggregatedPrices_new == [binance |-> None, jupiter |-> None, cowswap |-> None]

\* prices.write().await.<venue> = Some(quote)
write_venue_reset_others(p, venue, quote) ==
    [v \in DOMAIN p |-> IF v = venue THEN Some(quote) ELSE None]

write_venue_keep_ask(p, venue, quote) ==
    IF IsSome(p[venue])
    THEN [p EXCEPT ![venue] = Some([quote EXCEPT !.ask = p[venue].v.ask])]
    ELSE [p EXCEPT ![venue] = Some(quote)]

write_venue(p, venue, quote) == [p EXCEPT ![venue] = Some(quote)]

\* self.prices.read().await.clone()
get_prices(p) == p

\* the values of chrono::Utc::now().timestamp_millis() tried: 1 .. MaxStamp
MaxStamp == 1

Stamps == 1..MaxStamp

\* ------------------------------------------------------ str::parse::<f64>

DecimalDigits == <<"0", "1", "2", "3", "4", "5", "6", "7", "8", "9">>

IsDigit(c) == \E i \in 1..10 : DecimalDigits[i] = c

DigitValue(c) == (CHOOSE i \in 1..10 : DecimalDigits[i] = c) - 1

\* the letters of the grammar, in lower case
Lower(c) ==
    CASE c = "A" -> "a"
      [] c = "E" -> "e"
      [] c = "F" -> "f"
      [] c = "I" -> "i"
      [] c = "N" -> "n"
      [] c = "T" -> "t"
      [] c = "Y" -> "y"
      [] OTHER -> c

\* the character i of t
Char(t, i) == SubSeq(t, i, i)

\* t is word, the case of the letters apart
IsWord(t, word) ==
    Len(t) = Len(word) /\ \A i \in 1..Len(t) : Lower(Char(t, i)) = Char(word, i)

\* the number of decimal digits t begins with
DigitRun(t) == MaxOf({n \in 0..Len(t) : \A i \in 1..n : IsDigit(Char(t, i))})

\* the number of zeros t begins with
ZeroRun(t) == MaxOf({n \in 0..Len(t) : \A i \in 1..n : Char(t, i) = "0"})

\* the number written by the decimal digits t: that of the first half of them
\* times the power of ten of the second half, plus that of the second half
RECURSIVE BFromDigits(_)
BFromDigits(t) ==
    IF t = "" THEN <<>>
    ELSE IF Len(t) = 1 THEN BFromNat(DigitValue(t))
    ELSE BAdd(BMul(BFromDigits(SubSeq(t, 1, Len(t) \div 2)),
                   BPow10(Len(t) - (Len(t) \div 2))),
              BFromDigits(SubSeq(t, (Len(t) \div 2) + 1, Len(t))))

\* the exponent takes a digit as long as it is below ExpSaturation (0x10000)
ExpSaturation == 65536

\* the exponent after the first n of the decimal digits t, one digit at a time:
\* if exponent < 0x10000 { exponent = 10 * exponent + digit }
RECURSIVE ExpAfter(_, _)
ExpAfter(t, n) ==
    IF n = 0 THEN 0
    ELSE LET exponent == ExpAfter(t, n - 1)
         IN  IF exponent < ExpSaturation
             THEN 10 * exponent + DigitValue(Char(t, n))
             ELSE exponent

\* a leading zero leaves the exponent at 0, and after ExpDigits digits past the
\* leading zeros it is at least 10^5, above ExpSaturation, and takes no more
ExpDigits == 6

\* the exponent the decimal digits t leave
NatFromDigits(t) ==
    ExpAfter(SubSeq(t, ZeroRun(t) + 1, Len(t)), Min(Len(t) - ZeroRun(t), ExpDigits))

\* the f64 nearest to (-1)^s * digits * 10^exp10, where digits has len decimal
\* digits: at least 10^309 is beyond the largest finite value, and below 10^-324
\* is below half the smallest subnormal
Decimal(s, digits, len, exp10) ==
    IF digits = <<>> THEN Zero(s)
    ELSE IF len - 1 + exp10 >= 309 THEN Inf(s)
    ELSE IF len + exp10 <= -324 THEN Zero(s)
    ELSE IF exp10 >= 0 THEN Round(s, BMul(digits, BPow10(exp10)), 0, FALSE)
    ELSE DivRound(s, digits, BPow10(-exp10), 0)

\* the number with the integer digits int, the fraction digits frac and the
\* exponent exp
ParseDecimal(s, int, frac, exp) ==
    Some(Decimal(s, BFromDigits(int \o frac),
                 Len(int \o frac) - ZeroRun(int \o frac), exp - Len(frac)))

\* what follows the sign of the exponent
ParseExpDigits(s, int, frac, negative, expDigits) ==
    IF expDigits = "" \/ DigitRun(expDigits) # Len(expDigits) THEN None
    ELSE ParseDecimal(s, int, frac,
                      IF negative THEN -NatFromDigits(expDigits)
                      ELSE NatFromDigits(expDigits))

\* what follows the 'e'
ParseExponent(s, int, frac, expText) ==
    ParseExpDigits(s, int, frac, expText # "" /\ Head(expText) = "-",
                   IF expText # "" /\ Head(expText) \in {"+", "-"} THEN Tail(expText)
                   ELSE expText)

\* what follows the digits of the fraction
ParseAfterFraction(s, int, frac, rest) ==
    IF int = "" /\ frac = "" THEN None
    ELSE IF rest = "" THEN ParseDecimal(s, int, frac, 0)
    ELSE IF Lower(Head(rest)) = "e" THEN ParseExponent(s, int, frac, Tail(rest))
    ELSE None

\* what follows the point
ParsePoint(s, int, fraction) ==
    ParseAfterFraction(s, int, SubSeq(fraction, 1, DigitRun(fraction)),
                       SubSeq(fraction, DigitRun(fraction) + 1, Len(fraction)))

\* what follows the digits of the integer part
ParseAfterInt(s, int, rest) ==
    IF rest # "" /\ Head(rest) = "." THEN ParsePoint(s, int, Tail(rest))
    ELSE ParseAfterFraction(s, int, "", rest)

\* what follows the sign
ParseUnsigned(s, body) ==
    IF IsWord(body, "inf") \/ IsWord(body, "infinity") THEN Some(Inf(s))
    ELSE IF IsWord(body, "nan") THEN Some(NaN)
    ELSE ParseAfterInt(s, SubSeq(body, 1, DigitRun(body)),
                       SubSeq(body, DigitRun(body) + 1, Len(body)))

\* text.parse::<f64>(): Some(value) for Ok(value), None for Err. The grammar is
\* Sign? ('inf' | 'infinity' | 'nan' | Number), Number is
\* (Digit+ | Digit+ '.' Digit* | Digit* '.' Digit+) ('e' Sign? Digit+)?, letters in
\* either case
parse_f64(text) ==
    ParseUnsigned(IF text # "" /\ Head(text) = "-" THEN 1 ELSE 0,
                  IF text # "" /\ Head(text) \in {"+", "-"} THEN Tail(text) ELSE text)

\* tokio::time::sleep(Duration::from_secs(5)) after a failed or lost connection
RECONNECT_DELAY_SECS == 5

\* the spawned tasks run as long as the runtime does: main returning or unwinding
\* does not stop them, the drop of the runtime that follows does
Running == runtime = "running"

\* what a producer task leaves alone
mainvars == <<trading_engine, pc, runtime, cycle_count, snap, trade, stats, trades,
              recent, lockvars, history, arg, ret>>

\* what read.next() yields: a bookTicker text (of prices, of prices that are no
\* positive numbers, of a price that does not parse), a frame the loop ignores, an
\* error the loop logs, a close frame, or the end of the stream
BinanceMessages ==
    {[kind |-> "text", b |-> "1999.95", a |-> "2002.5"],
     [kind |-> "text", b |-> "NaN", a |-> "0"],
     [kind |-> "text", b |-> "-1", a |-> "inf"],
     [kind |-> "text", b |-> "abc", a |-> "2001"],
     [kind |-> "ping"],
     [kind |-> "err"],
     [kind |-> "close"],
     [kind |-> "end"]}

\* ticker.bid_price.parse::<f64>() and ticker.ask_price.parse::<f64>() of each
\* bookTicker text
BinanceParsed ==
    Table([msg \in {m \in BinanceMessages : m.kind = "text"} |->
              [bid |-> parse_f64(msg.b), ask |-> parse_f64(msg.a)]])

BinanceConnectOk ==
    /\ Running
    /\ binance = "connecting"
    /\ binance' = "streaming"
    /\ UNCHANGED <<prices, written, backoff, mainvars>>

BinanceConnectErr ==
    /\ Running
    /\ binance = "connecting"
    /\ binance' = "sleeping"
    /\ backoff' = RECONNECT_DELAY_SECS
    /\ UNCHANGED <<prices, written, mainvars>>

\* x is a positive number
IsPositive(x) == ~IsNaN(x) /\ ~IsInf(x) /\ FGt(x, FromInt(0))

\* the messages of a stream whose prices, where they parse, are positive numbers
PositiveMessages ==
    {msg \in BinanceMessages :
        msg.kind = "text" =>
            /\ IsSome(BinanceParsed[msg].bid) => IsPositive(BinanceParsed[msg].bid.v)
            /\ IsSome(BinanceParsed[msg].ask) => IsPositive(BinanceParsed[msg].ask.v)}

\* one turn of the while-let loop of binance_stream, read.next() yielding one of
\* the given messages
BinanceReadOf(messages) ==
    /\ Running
    /\ binance = "streaming"
    /\ UNCHANGED mainvars
    /\ \E msg \in messages, ts \in Stamps :
          IF msg.kind = "text"
          THEN LET bid == BinanceParsed[msg].bid
                   ask == BinanceParsed[msg].ask
               IN  IF IsSome(bid) /\ IsSome(ask)
                   THEN LET quote == [bid |-> bid.v, ask |-> ask.v, timestamp |-> ts]
                        IN  /\ prices' = write_venue(prices, "binance", quote)
                            /\ written' = [written EXCEPT !.binance = Some(quote)]
                            /\ UNCHANGED <<binance, backoff>>
                   ELSE UNCHANGED <<prices, written, binance, backoff>>
          ELSE IF msg.kind \in {"close", "end"}
          THEN /\ binance' = "sleeping"
               /\ backoff' = RECONNECT_DELAY_SECS
               /\ UNCHANGED <<prices, written>>
          ELSE UNCHANGED <<prices, written, binance, backoff>>

BinanceRead == BinanceReadOf(BinanceMessages)

BinanceReadPositive == BinanceReadOf(PositiveMessages)

\* tokio::time::sleep(Duration::from_secs(5)) is over
BinanceGiveUp ==
    /\ Running
    /\ binance = "sleeping"
    /\ binance' = "returned"
    /\ UNCHANGED <<prices, written, backoff, mainvars>>

BinanceRetry ==
    /\ Running
    /\ binance = "sleeping"
    /\ binance' = "connecting"
    /\ UNCHANGED <<prices, written, backoff, mainvars>>

\* what the GET yields: Err, a body that is no JSON or has no usdPrice, or a price
JupiterResponses ==
    {[kind |-> "err"], [kind |-> "bad"], [kind |-> "price", usdPrice |-> FromInt(2000)]}

\* the bid and the ask a spread below and above the price
SpreadQuote(price, spread) == [bid |-> FSub(price, spread), ask |-> FAdd(price, spread)]

\* the bid and the ask jupiter_poll makes of each price: lines 240 to 243
JupiterQuotes ==
    Table([r \in {x \in JupiterResponses : x.kind = "price"} |->
              SpreadQuote(r.usdPrice, FMul(r.usdPrice, Ratio(5, 10000)))])

\* one turn of the loop of jupiter_poll: the tick, the GET and its outcome
jupiter_poll ==
    /\ Running
    /\ \E r \in JupiterResponses, ts \in Stamps :
          IF r.kind = "price"
          THEN LET quote == [bid |-> JupiterQuotes[r].bid, ask |-> JupiterQuotes[r].ask,
                             timestamp |-> ts]
               IN  /\ prices' = write_venue(prices, "jupiter", quote)
                   /\ written' = [written EXCEPT !.jupiter = Some(quote)]
          ELSE UNCHANGED <<prices, written>>
    /\ UNCHANGED <<binance, backoff, mainvars>>

\* what the POST yields: Err, a body without the two amounts, or the texts of
\* the amounts: sellAmount in units of 10^-6 USDC, buyAmount in wei
CowswapResponses ==
    {[kind |-> "err"], [kind |-> "bad"],
     [kind |-> "amounts", sellAmount |-> "1000000000", buyAmount |-> "500000000000000000"]}

\* the f64 of the literals 1e6 and 1e18
Million == FromInt(1000000)

Quintillion == FMul(FromInt(1000000000), FromInt(1000000000))

\* the bid and the ask cowswap_poll makes of each pair of amounts, None when one
\* of them does not parse: lines 283 to 292
CowswapPriced(price) == SpreadQuote(price, FMul(price, Ratio(1, 1000)))

CowswapQuote(sell, buy) ==
    IF IsSome(sell) /\ IsSome(buy)
    THEN Some(CowswapPriced(FDiv(FDiv(sell.v, Million), FDiv(buy.v, Quintillion))))
    ELSE None

CowswapQuotes ==
    Table([r \in {x \in CowswapResponses : x.kind = "amounts"} |->
              CowswapQuote(parse_f64(r.sellAmount), parse_f64(r.buyAmount))])

\* one turn of the loop of cowswap_poll: the tick, the POST and its outcome
cowswap_poll ==
    /\ Running
    /\ \E r \in CowswapResponses, ts \in Stamps :
          IF r.kind = "amounts" /\ IsSome(CowswapQuotes[r])
          THEN LET quote == [bid |-> CowswapQuotes[r].v.bid, ask |-> CowswapQuotes[r].v.ask,
                             timestamp |-> ts]
               IN  /\ prices' = write_venue(prices, "cowswap", quote)
                   /\ written' = [written EXCEPT !.cowswap = Some(quote)]
          ELSE UNCHANGED <<prices, written>>
    /\ UNCHANGED <<binance, backoff, mainvars>>

\* the states of the store: each venue without a quote yet, or with a quote its
\* producer writes
BinanceStates ==
    {None} \cup
    {Some([bid |-> BinanceParsed[m].bid.v, ask |-> BinanceParsed[m].ask.v, timestamp |-> ts]) :
        m \in {x \in DOMAIN BinanceParsed :
                  IsSome(BinanceParsed[x].bid) /\ IsSome(BinanceParsed[x].ask)},
        ts \in Stamps}

JupiterStates ==
    {None} \cup
    {Some([bid |-> JupiterQuotes[r].bid, ask |-> JupiterQuotes[r].ask, timestamp |-> ts]) :
        r \in DOMAIN JupiterQuotes, ts \in Stamps}

CowswapStates ==
    {None} \cup
    {Some([bid |-> CowswapQuotes[r].v.bid, ask |-> CowswapQuotes[r].v.ask, timestamp |-> ts]) :
        r \in {x \in DOMAIN CowswapQuotes : IsSome(CowswapQuotes[x])}, ts \in Stamps}

StoreStates == [binance : BinanceStates, jupiter : JupiterStates, cowswap : CowswapStates]

\* ----------------------------------------------------------------- main

SIMULATION_DURATION_SECS == 600

TRADE_INTERVAL_SECS == 5

\* the decision cycles a run of the model takes at most; the statistics printed
\* every tenth cycle (lines 106 to 113) are beyond them
MaxCycles == 2

\* the readings of the clock tried: 0 .. MaxElapsed seconds
MaxElapsed == 601

Seconds == 0..MaxElapsed

\* the values of rng.random::<f64>() the decision loop draws, in hundredths
LoopDrawPercents == {0, 20, 70, 90}

\* the engines main builds: without and with --advanced
Engines == {TradingEngine_new(FromInt(NOTIONAL_PER_TRADE), adv) : adv \in BOOLEAN}

\* get_market_summary and the part of attempt_trade that comes before the draw,
\* of every state of the store, each computed once
MarketSummaries == Table([p \in StoreStates |-> get_market_summary(p)])

TradeOrders ==
    Table([c \in Engines \X StoreStates \X {"Buy", "Sell"} |->
              attempt_trade_order(c[1], c[2], c[3])])

\* trading_engine.attempt_trade(&prices, side) of main: the store is in one of its
\* states
MainAttemptTrade(engine, p, side, draw, ts) ==
    attempt_trade_executed(engine, side, draw, ts, TradeOrders[<<engine, p, side>>])

\* what a step of main leaves alone
taskvars == <<prices, written, binance, backoff, trading_engine, runtime, lockvars,
              arg, ret>>

\* sleep(10 s) is over; the engine and the tracker are built
MainStart ==
    /\ pc = "init"
    /\ pc' = "tick"
    /\ UNCHANGED <<cycle_count, snap, trade, stats, trades, recent, history, taskvars>>

\* if elapsed >= SIMULATION_DURATION_SECS: line 49
Expired(elapsed) == elapsed >= SIMULATION_DURATION_SECS

\* trade_interval.tick() fires and the clock is read, lines 46 to 57, the
\* comparison of line 49 being expired. A run takes MaxCycles cycles at most: at the
\* tick after them a reading below the duration is not tried
MainTickOn(expired) ==
    /\ pc = "tick"
    /\ ~expired => cycle_count < MaxCycles
    /\ IF expired
       THEN pc' = "summary" /\ UNCHANGED cycle_count
       ELSE pc' = "snapshot" /\ cycle_count' = cycle_count + 1
    /\ UNCHANGED <<snap, trade, stats, trades, recent, history, taskvars>>

\* the tick at any reading of the clock. elapsed is a local of the loop body: main
\* keeps no reading from one tick to the next, and all that a reading leaves in the
\* state is whether the loop was left, so the readings are taken by what line 49
\* makes of them
MainTick == \E expired \in {Expired(elapsed) : elapsed \in Seconds} : MainTickOn(expired)

\* let prices = aggregator.get_prices().await, and the market summary of it
MainSnapshot ==
    /\ pc = "snapshot"
    /\ LET p == get_prices(prices)
       IN  /\ snap' = p
           /\ pc' = IF MarketSummaries[p] = Panic THEN "panicked" ELSE "buy"
    /\ UNCHANGED <<cycle_count, trade, stats, trades, recent, history, taskvars>>

MainAttempt(at, side, filled, skipped) ==
    /\ pc = at
    /\ \E k \in LoopDrawPercents, ts \in Stamps :
       \E t \in {MainAttemptTrade(trading_engine, snap, side, Ratio(k, 100), ts)} :
          /\ trade' = t
          /\ pc' = IF t = Panic THEN "panicked"
                   ELSE IF IsSome(t) THEN filled ELSE skipped
    /\ UNCHANGED <<cycle_count, snap, stats, trades, recent, history, taskvars>>

\* pnl_tracker.print_trade(&trade).await; pnl_tracker.record_trade(trade).await
MainRecord(at, next) ==
    /\ pc = at
    /\ \E r \in {record_trade(stats, trades, trade.v)} :
          /\ stats' = r.stats
          /\ trades' = r.trades
          /\ history' = history \cup {r.stats}
    /\ pc' = next
    /\ UNCHANGED <<cycle_count, snap, trade, recent, taskvars>>

MainBuy == MainAttempt("buy", "Buy", "record_buy", "sell")

MainRecordBuy == MainRecord("record_buy", "sell")

MainSell == MainAttempt("sell", "Sell", "record_sell", "tick")

MainRecordSell == MainRecord("record_sell", "tick")

\* after the loop: print_summary, get_recent_trades(5)
MainSummary ==
    /\ pc = "summary"
    /\ recent' = get_recent_trades(trades, 5)
    /\ pc' = "done"
    /\ UNCHANGED <<cycle_count, snap, trade, stats, trades, history, taskvars>>

\* main has returned, or has unwound from a panic: block_on is left and the runtime
\* is dropped, which ends the spawned tasks where they wait; the process exits
RuntimeDrop ==
    /\ pc \in {"done", "panicked"}
    /\ runtime = "running"
    /\ runtime' = "dropped"
    /\ UNCHANGED <<prices, written, binance, backoff, trading_engine, pc, cycle_count,
                   snap, trade, stats, trades, recent, history, lockvars, arg, ret>>

NoCall == [fn |-> "none"]

\* the tasks that call the tracker at the same time
NumTasks == 2

TrackerTasks == 1..NumTasks

\* a task that is in no call of the tracker
Idle == [op |-> "idle", line |-> 0, param |-> None]

SysInit ==
    /\ prices = AggregatedPrices_new
    /\ written = AggregatedPrices_new
    /\ binance = "connecting"
    /\ pc = "init"
    /\ runtime = "running"
    /\ cycle_count = 0
    /\ snap = None
    /\ trade = None
    /\ stats = PnLStats_new
    /\ trades = <<>>
    /\ recent = <<>>
    /\ backoff = 0
    /\ stats_lock = RwLock_new
    /\ trades_lock = RwLock_new
    /\ task = [t \in TrackerTasks |-> Idle]
    /\ history = {PnLStats_new}

Init ==
    /\ SysInit
    /\ trading_engine \in Engines
    /\ arg = None
    /\ ret = NoCall

Next ==
    \/ BinanceConnectOk
    \/ BinanceConnectErr
    \/ BinanceRead
    \/ BinanceRetry
    \/ jupiter_poll
    \/ cowswap_poll
    \/ MainStart
    \/ MainTick
    \/ MainSnapshot
    \/ MainBuy
    \/ MainRecordBuy
    \/ MainSell
    \/ MainRecordSell
    \/ MainSummary
    \/ RuntimeDrop

Spec == Init /\ [][Next]_vars

\* the same, the stream delivering positive prices only
NextPositive ==
    \/ BinanceConnectOk
    \/ BinanceConnectErr
    \/ BinanceReadPositive
    \/ BinanceRetry
    \/ jupiter_poll
    \/ cowswap_poll
    \/ MainStart
    \/ MainTick
    \/ MainSnapshot
    \/ MainBuy
    \/ MainRecordBuy
    \/ MainSell
    \/ MainRecordSell
    \/ MainSummary
    \/ RuntimeDrop

SpecPositive == Init /\ [][NextPositive]_vars

\* the same, with the timer of the back-off sleep of binance_stream firing
SpecLive == Spec /\ WF_vars(BinanceRetry)

\* where main is inside a cycle, between two ticks
CyclePositions == {"snapshot", "buy", "record_buy", "sell", "record_sell"}

\* a step of main inside a cycle: main alone changes pc, and each of these steps
\* needs nothing but main being there (a lock of the store or of the tracker that
\* is held for a copy or an update only)
MainCycleStep ==
    /\ pc \in CyclePositions
    /\ pc' \in (CyclePositions \cup {"tick", "panicked"}) \ {pc}

\* the same, with main scheduled: its sleep ends, its interval timer fires, its task
\* runs; nothing is assumed of the producers, which may fail or stall for ever
SpecMainFair ==
    /\ Spec
    /\ WF_vars(MainStart)
    /\ WF_vars(MainTick)
    /\ WF_pc(MainCycleStep)
    /\ WF_vars(MainSummary)

\* ------------------------------------------- the pure functions, applied

Sides == {"Buy", "Sell"}

VenueNames == {"binance", "jupiter", "cowswap"}

\* prices 99 .. 99 + PriceSpan
PriceSpan == 3

AggValues == {FromInt(i) : i \in 99 .. 99 + PriceSpan}

\* snapshots with a zero price
ZeroValues == {FromInt(0), FromInt(100)}

\* the values of rng.random::<f64>() tried, in hundredths
DrawPercents == {0, 20, 69, 70, 90}

OptionQuotes(values, stamps) ==
    {None} \cup {Some(q) : q \in [bid : values, ask : values, timestamp : stamps]}

Snapshots(values, stamps) ==
    [binance : OptionQuotes(values, stamps),
     jupiter : OptionQuotes(values, stamps),
     cowswap : OptionQuotes(values, stamps)]

\* median_quote, best_quote, median_mid and get_market_summary of the snapshot arg
Aggregate ==
    /\ ret = NoCall
    /\ ret' = [fn |-> "aggregate",
               median |-> median_quote(arg),
               best |-> best_quote(arg),
               mid |-> median_mid(arg),
               summary |-> get_market_summary(arg)]
    /\ UNCHANGED <<arg, sysvars>>

\* attempt_trade on the snapshot arg
AttemptTrade ==
    /\ ret = NoCall
    /\ \E side \in Sides, engine \in Engines :
          \E order \in {attempt_trade_order(engine, arg, side)}, k \in DrawPercents :
             ret' = [fn |-> "attempt_trade", side |-> side, draw |-> Ratio(k, 100),
                     adv |-> engine.use_advanced_model,
                     val |-> attempt_trade_executed(engine, side, Ratio(k, 100), 1, order)]
    /\ UNCHANGED <<arg, sysvars>>

InitAgg ==
    /\ SysInit
    /\ trading_engine = TradingEngine_new(FromInt(NOTIONAL_PER_TRADE), FALSE)
    /\ arg \in Snapshots(AggValues, {1}) \cup Snapshots(ZeroValues, {1})
    /\ ret = NoCall

NextAgg == Aggregate \/ AttemptTrade

SpecAgg == InitAgg /\ [][NextAgg]_vars

\* the same, over snapshots whose values may be NaN
AnyValues == {NaN, FromInt(0), FromInt(100), FromInt(101)}

InitAny ==
    /\ SysInit
    /\ trading_engine = TradingEngine_new(FromInt(NOTIONAL_PER_TRADE), FALSE)
    /\ arg \in Snapshots(AnyValues, {1})
    /\ ret = NoCall

SpecAny == InitAny /\ [][NextAgg]_vars

\* the same, over snapshots of one price whose timestamps are any of
\* -StampSpan .. StampSpan
StampSpan == 1

AnyStamps == -StampSpan .. StampSpan

InitStamp ==
    /\ SysInit
    /\ trading_engine = TradingEngine_new(FromInt(NOTIONAL_PER_TRADE), FALSE)
    /\ arg \in Snapshots({FromInt(100)}, AnyStamps)
    /\ ret = NoCall

NextStamp == Aggregate

SpecStamp == InitStamp /\ [][NextStamp]_vars

\* calculate_execution_probability of the advanced model on prices 0 .. MaxProbPrice
MaxProbPrice == 4

ProbValues == {FromInt(i) : i \in 0..MaxProbPrice}

Probability ==
    /\ ret = NoCall
    /\ ret' = [fn |-> "probability",
               val |-> calculate_execution_probability(
                          TradingEngine_new(FromInt(NOTIONAL_PER_TRADE), TRUE),
                          arg.our_price, arg.median_price, arg.best_price, arg.side)]
    /\ UNCHANGED <<arg, sysvars>>

InitProb ==
    /\ SysInit
    /\ trading_engine = TradingEngine_new(FromInt(NOTIONAL_PER_TRADE), FALSE)
    /\ arg \in [our_price : ProbValues, median_price : ProbValues,
                best_price : ProbValues, side : Sides]
    /\ ret = NoCall

NextProb == Probability

SpecProb == InitProb /\ [][NextProb]_vars

\* ------------------------------------------- the tracker, called by tasks

\* the entries the ledger holds at most
MaxLedger == 3

\* get_recent_trades(n) for n in 0 .. MaxRecent
MaxRecent == 3

\* a trade with a pnl and an execution probability given in tenths
TradeOf(side, pnl, prob) ==
    [side |-> side,
     price |-> FromInt(100),
     amount_eth |-> FromInt(1000),
     notional_usd |-> FromInt(NOTIONAL_PER_TRADE),
     pnl |-> Ratio(pnl, 10),
     timestamp |-> 1,
     execution_prob |-> Ratio(prob, 10)]

\* the trades handed to record_trade: pnl 10, -4 and 0.3
TrackerTrades == {TradeOf("Buy", 100, 8), TradeOf("Sell", -40, 4), TradeOf("Buy", 3, 9)}

\* what a step of the tracker leaves alone
trackerframe == <<prices, written, binance, trading_engine, pc, runtime, cycle_count,
                  snap, trade, recent, backoff, arg>>

\* the record_trade calls that have not pushed their trade yet
Recording == {u \in TrackerTasks : task[u].op = "record_trade" /\ task[u].line # 86}

\* the ledgers the calls can make
Ledgers == UNION {[1..n -> TrackerTrades] : n \in 0..MaxLedger}

\* record_trade(trade) is called: line 62, stats.write() is requested
RecordCall ==
    \E t \in TrackerTasks, tr \in TrackerTrades :
        /\ task[t] = Idle
        /\ Len(trades) + Cardinality(Recording) < MaxLedger
        /\ task' = [task EXCEPT ![t] = [op |-> "record_trade", line |-> 62, param |-> tr]]
        /\ stats_lock' = write(stats_lock, t)
        /\ UNCHANGED <<stats, trades, trades_lock, history, ret, trackerframe>>

\* the stats guard is held: line 63, trades.write() is requested
RecordLockTrades ==
    \E t \in TrackerTasks :
        /\ task[t].op = "record_trade"
        /\ task[t].line = 62
        /\ holds_write(stats_lock, t)
        /\ task' = [task EXCEPT ![t].line = 63]
        /\ trades_lock' = write(trades_lock, t)
        /\ UNCHANGED <<stats, trades, stats_lock, history, ret, trackerframe>>

\* the trades guard is held: the task is at the first statement, line 65
RecordEnter ==
    \E t \in TrackerTasks :
        /\ task[t].op = "record_trade"
        /\ task[t].line = 63
        /\ holds_write(trades_lock, t)
        /\ task' = [task EXCEPT ![t].line = 65]
        /\ UNCHANGED <<stats, trades, stats_lock, trades_lock, history, ret, trackerframe>>

\* the lines of record_trade that are statements on the stats: they await nothing
StatementLines == {65, 66, 67, 71, 72, 75, 76, 81}

\* the next statement on the stats, lines 65 to 83
RecordStatement ==
    \E t \in TrackerTasks :
        /\ task[t].op = "record_trade"
        /\ task[t].line \in StatementLines
        /\ stats' = record_trade_statement(task[t].line, stats, task[t].param)
        /\ task' = [task EXCEPT ![t].line = record_trade_next(task[t].line, task[t].param)]
        /\ UNCHANGED <<trades, stats_lock, trades_lock, history, ret, trackerframe>>

\* trades.push(trade), line 85
RecordPush ==
    \E t \in TrackerTasks :
        /\ task[t].op = "record_trade"
        /\ task[t].line = 85
        /\ trades' = push(trades, task[t].param)
        /\ task' = [task EXCEPT ![t].line = 86]
        /\ UNCHANGED <<stats, stats_lock, trades_lock, history, ret, trackerframe>>

\* line 86, the locals are dropped in the reverse order of their declaration: first
\* the guard of the ledger (declared at line 63)
RecordDropTrades ==
    \E t \in TrackerTasks :
        /\ task[t].op = "record_trade"
        /\ task[t].line = 86
        /\ holds_write(trades_lock, t)
        /\ trades_lock' = release_write(trades_lock, t)
        /\ UNCHANGED <<stats, trades, stats_lock, task, history, ret, trackerframe>>

\* line 86: then the guard of the stats (declared at line 62), and record_trade
\* returns
RecordReturn ==
    \E t \in TrackerTasks :
        /\ task[t].op = "record_trade"
        /\ task[t].line = 86
        /\ ~holds_write(trades_lock, t)
        /\ stats_lock' = release_write(stats_lock, t)
        /\ UNCHANGED trades_lock
        /\ history' = history \cup {stats}
        /\ ret' = [fn |-> "record_trade", task |-> t, val |-> task[t].param]
        /\ task' = [task EXCEPT ![t] = Idle]
        /\ UNCHANGED <<stats, trades, trackerframe>>

\* get_stats() is called: line 89, stats.read() is requested
GetStatsCall ==
    \E t \in TrackerTasks :
        /\ task[t] = Idle
        /\ task' = [task EXCEPT ![t] = [op |-> "get_stats", line |-> 89, param |-> None]]
        /\ stats_lock' = read(stats_lock, t)
        /\ UNCHANGED <<stats, trades, trades_lock, history, ret, trackerframe>>

\* the guard is held: the stats are cloned, the guard is dropped
GetStatsReturn ==
    \E t \in TrackerTasks :
        /\ task[t].op = "get_stats"
        /\ holds_read(stats_lock, t)
        /\ ret' = [fn |-> "get_stats", task |-> t, val |-> get_stats(stats)]
        /\ stats_lock' = release_read(stats_lock, t)
        /\ task' = [task EXCEPT ![t] = Idle]
        /\ UNCHANGED <<stats, trades, trades_lock, history, trackerframe>>

\* get_recent_trades(n) is called: line 93, trades.read() is requested
GetRecentTradesCall ==
    \E t \in TrackerTasks, n \in 0..MaxRecent :
        /\ task[t] = Idle
        /\ task' = [task EXCEPT ![t] = [op |-> "get_recent_trades", line |-> 93,
                                         param |-> n]]
        /\ trades_lock' = read(trades_lock, t)
        /\ UNCHANGED <<stats, trades, stats_lock, history, ret, trackerframe>>

\* the guard is held: the tail of the ledger is copied, the guard is dropped
GetRecentTradesReturn ==
    \E t \in TrackerTasks :
        /\ task[t].op = "get_recent_trades"
        /\ holds_read(trades_lock, t)
        /\ ret' = [fn |-> "get_recent_trades", task |-> t, n |-> task[t].param,
                   val |-> get_recent_trades(trades, task[t].param)]
        /\ trades_lock' = release_read(trades_lock, t)
        /\ task' = [task EXCEPT ![t] = Idle]
        /\ UNCHANGED <<stats, trades, stats_lock, history, trackerframe>>

InitTracker ==
    /\ SysInit
    /\ trading_engine = TradingEngine_new(FromInt(NOTIONAL_PER_TRADE), FALSE)
    /\ arg = None
    /\ ret = NoCall

NextTracker ==
    \/ RecordCall
    \/ RecordLockTrades
    \/ RecordEnter
    \/ RecordStatement
    \/ RecordPush
    \/ RecordDropTrades
    \/ RecordReturn
    \/ GetStatsCall
    \/ GetStatsReturn
    \/ GetRecentTradesCall
    \/ GetRecentTradesReturn

SpecTracker == InitTracker /\ [][NextTracker]_vars

\* a step of task t inside the operation it has started, other than a statement on
\* the stats: the guard it awaits is granted, the ledger is pushed to, a guard
\* is dropped, or the operation returns
TrackerStep(t) ==
    /\ task[t] # Idle
    /\ \/ RecordLockTrades
       \/ RecordEnter
       \/ RecordPush
       \/ RecordDropTrades
       \/ RecordReturn
       \/ GetStatsReturn
       \/ GetRecentTradesReturn
    /\ \/ task'[t] # task[t]
       \/ holds_write(trades_lock, t) /\ ~holds_write(trades_lock', t)

\* task t goes from a statement of StatementLines to the next line
StatementStep(t) ==
    /\ task[t].op = "record_trade"
    /\ task[t].line \in StatementLines
    /\ task' = [task EXCEPT ![t].line = record_trade_next(task[t].line, task[t].param)]

\* the runtime polls every task that is ready, and a task that runs goes on to its
\* next line
SpecTrackerFair ==
    /\ SpecTracker
    /\ \A t \in TrackerTasks : WF_vars(TrackerStep(t)) /\ WF_task(StatementStep(t))

\* ------------------------------------------- properties of the functions

NumPresent(p) == Cardinality({v \in VenueNames : p[v] # None})

TradeFields ==
    {"side", "price", "amount_eth", "notional_usd", "pnl", "timestamp", "execution_prob"}

QuoteOf(bid, ask) == [bid |-> FromInt(bid), ask |-> FromInt(ask), timestamp |-> 1]

\* exactly two venues present, A = (bid 100, ask 101) and B = (bid 99, ask 102)
Scenario(p) ==
    \E a, b \in VenueNames :
        /\ a # b
        /\ p[a] = Some(QuoteOf(100, 101))
        /\ p[b] = Some(QuoteOf(99, 102))
        /\ \A c \in VenueNames \ {a, b} : p[c] = None

ScenarioBuy ==
    /\ ret.fn = "attempt_trade"
    /\ Scenario(arg)
    /\ ret.side = "Buy"
    /\ ~ret.adv
    /\ ret.draw = FromInt(0)

\* C3: median_quote, best_quote, median_mid and attempt_trade return a result or an
\* absence and never panic, on every snapshot, the values that do not compare (NaN)
\* included.
C3_NeverPanics ==
    /\ ret.fn = "aggregate" =>
           ret.median # Panic /\ ret.best # Panic /\ ret.mid # Panic
    /\ ret.fn = "attempt_trade" => ret.val # Panic

\* C4 as stated: in the two-venue scenario median_quote is (99, 101), best_quote is
\* (100, 101), and a basic-model Buy with draw 0.0 fills at 99 with
\* pnl = (100 - 99) x amount.
C4_LowerMedianScenario ==
    /\ ret.fn = "aggregate" /\ Scenario(arg) =>
           /\ ret.median = Some(QuoteOf(99, 101))
           /\ ret.best = Some(QuoteOf(100, 101))
    /\ ScenarioBuy =>
           /\ IsSome(ret.val)
           /\ ret.val.v.price = FromInt(99)
           /\ ret.val.v.pnl = FMul(FSub(FromInt(100), FromInt(99)), ret.val.v.amount_eth)

\* C4 amended: in the two-venue scenario median_quote is (100, 102), the upper of the
\* two middle values on each side, best_quote is (100, 101), and a basic-model Buy
\* with draw 0.0 fills at 100 with pnl = (100 - 100) x amount = 0.
C4_UpperMedianScenario ==
    /\ ret.fn = "aggregate" /\ Scenario(arg) =>
           /\ ret.median = Some(QuoteOf(100, 102))
           /\ ret.best = Some(QuoteOf(100, 101))
    /\ ScenarioBuy =>
           /\ IsSome(ret.val)
           /\ ret.val.v.price = FromInt(100)
           /\ ret.val.v.amount_eth = FromInt(1000)
           /\ ret.val.v.pnl = FMul(FSub(FromInt(100), FromInt(100)), ret.val.v.amount_eth)
           /\ ret.val.v.pnl = FromInt(0)

C4_Witness == ScenarioBuy /\ IsSome(ret.val)

\* C5: median_quote and best_quote are both Some when at least one venue is present
\* and both None when no venue is present.
C5_QuotesDefinedIffPresent ==
    ret.fn = "aggregate" =>
        IF NumPresent(arg) >= 1
        THEN IsSome(ret.median) /\ IsSome(ret.best)
        ELSE ret.median = None /\ ret.best = None

C5_Witness ==
    /\ ret.fn = "aggregate"
    /\ NumPresent(arg) = 1
    /\ arg.cowswap # None
    /\ IsSome(ret.median)
    /\ IsSome(ret.best)

\* C6: on every snapshot with at least one venue present, the values that do not
\* compare (NaN) included, best_quote.bid >= median_quote.bid and best_quote.ask <=
\* median_quote.ask.
C6_BestNotWorseThanMedian ==
    ret.fn = "aggregate" /\ NumPresent(arg) >= 1 =>
        /\ IsSome(ret.median)
        /\ IsSome(ret.best)
        /\ FGe(ret.best.v.bid, ret.median.v.bid)
        /\ FLe(ret.best.v.ask, ret.median.v.ask)

\* C6 on the snapshots that hold the claim's failing input apart: one venue present
\* whose bid is NaN; median_quote and best_quote both return it
C6_OneVenueNaN ==
    ret.fn = "aggregate" /\ NumPresent(arg) = 1 =>
        /\ IsSome(ret.median)
        /\ IsSome(ret.best)
        /\ ret.best.v.bid = ret.median.v.bid
        /\ ret.best.v.ask = ret.median.v.ask
        /\ ~IsNaN(ret.median.v.bid) => FGe(ret.best.v.bid, ret.median.v.bid)
        /\ ~IsNaN(ret.median.v.ask) => FLe(ret.best.v.ask, ret.median.v.ask)
        /\ IsNaN(ret.median.v.bid) => ~FGe(ret.best.v.bid, ret.median.v.bid)
        /\ IsNaN(ret.median.v.ask) => ~FLe(ret.best.v.ask, ret.median.v.ask)

\* C7: under the basic model, with at least one venue present, attempt_trade fills
\* iff the draw is below 0.70; a fill is a fully populated Trade whose execution_prob
\* is 0.70, and a no-fill is None.
C7_BasicFillsBelowSeventy ==
    ret.fn = "attempt_trade" /\ ~ret.adv /\ NumPresent(arg) >= 1 =>
        IF FLt(ret.draw, Ratio(70, 100))
        THEN /\ IsSome(ret.val)
             /\ DOMAIN ret.val.v = TradeFields
             /\ ret.val.v.execution_prob = Ratio(70, 100)
        ELSE ret.val = None

C7_Witness ==
    /\ ret.fn = "attempt_trade"
    /\ ~ret.adv
    /\ NumPresent(arg) = 2
    /\ ret.draw = Ratio(69, 100)
    /\ IsSome(ret.val)

AdvancedProbability(our_price, a) ==
    calculate_execution_probability(
        TradingEngine_new(FromInt(NOTIONAL_PER_TRADE), TRUE),
        our_price, a.median_price, a.best_price, a.side)

\* q is at least as aggressive a quoted price as our_price
MoreAggressive(q, our_price, side) ==
    IF side = "Buy" THEN FGe(q, our_price) ELSE FLe(q, our_price)

\* C8: the advanced-model probability lies in [0.20, 0.90] and, for a fixed side,
\* median and best price, does not decrease as the quoted price gets more aggressive.
C8_AdvancedMonotoneBounded ==
    ret.fn = "probability" =>
        /\ FGe(ret.val, Ratio(20, 100))
        /\ FLe(ret.val, Ratio(90, 100))
        /\ \A q \in ProbValues :
               MoreAggressive(q, arg.our_price, arg.side) =>
                   FLe(ret.val, AdvancedProbability(q, arg))

C8_Witness ==
    /\ ret.fn = "probability"
    /\ FGt(ret.val, Ratio(20, 100))
    /\ FLt(ret.val, Ratio(90, 100))
    /\ \E q \in ProbValues :
           /\ MoreAggressive(q, arg.our_price, arg.side)
           /\ FLt(ret.val, AdvancedProbability(q, arg))
           /\ FLt(AdvancedProbability(q, arg), Ratio(90, 100))

\* best - median for a Buy, median - best for a Sell
InterpolationRange(a) ==
    IF a.side = "Buy"
    THEN FSub(a.best_price, a.median_price)
    ELSE FSub(a.median_price, a.best_price)

AtOrBeyondBest(a) ==
    IF a.side = "Buy"
    THEN FGe(a.our_price, a.best_price)
    ELSE FLe(a.our_price, a.best_price)

\* C9 as stated: whenever the interpolation range is zero or negative the advanced
\* probability is the floor 0.20.
C9_DegenerateRangeIsFloor ==
    ret.fn = "probability" /\ FLe(InterpolationRange(arg), FromInt(0)) =>
        ret.val = Ratio(20, 100)

\* C9 amended: whenever the interpolation range is zero or negative the advanced
\* probability is 0.90 if the quoted price is at or beyond the best price and the
\* floor 0.20 otherwise.
C9_DegenerateRangeBestOrFloor ==
    ret.fn = "probability" /\ FLe(InterpolationRange(arg), FromInt(0)) =>
        ret.val = IF AtOrBeyondBest(arg) THEN Ratio(90, 100) ELSE Ratio(20, 100)

C9_Witness ==
    /\ ret.fn = "probability"
    /\ FLt(InterpolationRange(arg), FromInt(0))
    /\ ~AtOrBeyondBest(arg)
    /\ ret.val = Ratio(20, 100)

\* C10: a Trade returned by attempt_trade has price = median bid (Buy) or median ask
\* (Sell), notional = notional_per_trade, amount = notional / price and
\* pnl = (best bid - price) x amount (Buy) or (price - best ask) x amount (Sell).
C10_TradeFields ==
    ret.fn = "attempt_trade" /\ IsSome(ret.val) =>
        LET t == ret.val.v
            m == median_quote(arg).v
            b == best_quote(arg).v
        IN  /\ t.side = ret.side
            /\ t.price = (IF t.side = "Buy" THEN m.bid ELSE m.ask)
            /\ t.notional_usd = FromInt(NOTIONAL_PER_TRADE)
            /\ t.amount_eth = FDiv(FromInt(NOTIONAL_PER_TRADE), t.price)
            /\ t.pnl = (IF t.side = "Buy"
                        THEN FMul(FSub(b.bid, t.price), t.amount_eth)
                        ELSE FMul(FSub(t.price, b.ask), t.amount_eth))

C10_Witness ==
    /\ ret.fn = "attempt_trade"
    /\ IsSome(ret.val)
    /\ ret.side = "Sell"
    /\ NumPresent(arg) = 3
    /\ FGt(ret.val.v.pnl, FromInt(0))

\* C17: get_market_summary returns no summary, hence no spread in basis points, for
\* a snapshot whose median_mid is absent or zero.
C17_SpreadOnlyForNonzeroMid ==
    ret.fn = "aggregate" /\ (ret.mid = None \/ ret.mid = Some(FromInt(0))) =>
        ret.summary = None

\* the venues that are present
Present(p) == {v \in VenueNames : p[v] # None}

\* x is the element at zero-based index k of the ascending order of the values
\* p[v].v[side] of the present venues
AtSortedIndex(x, p, side, k) ==
    /\ \E v \in Present(p) : p[v].v[side] = x
    /\ Cardinality({v \in Present(p) : FLt(p[v].v[side], x)}) <= k
    /\ Cardinality({v \in Present(p) : FLe(p[v].v[side], x)}) >= k + 1

\* C18: with n >= 1 venues present the bid of median_quote is the element at index
\* floor(n/2) of the present bids in ascending order and its ask the element at
\* index floor(n/2) of the present asks in ascending order, each on its own; with
\* one venue present median_quote and best_quote have that venue's bid and ask and
\* median_mid is its (bid + ask) / 2.
C18_MedianIsFloorIndex ==
    ret.fn = "aggregate" /\ NumPresent(arg) >= 1 =>
        /\ AtSortedIndex(ret.median.v.bid, arg, "bid", NumPresent(arg) \div 2)
        /\ AtSortedIndex(ret.median.v.ask, arg, "ask", NumPresent(arg) \div 2)
        /\ NumPresent(arg) = 1 =>
               \A v \in Present(arg) :
                   /\ ret.median.v.bid = arg[v].v.bid
                   /\ ret.median.v.ask = arg[v].v.ask
                   /\ ret.best.v.bid = arg[v].v.bid
                   /\ ret.best.v.ask = arg[v].v.ask
                   /\ ret.mid = Some(FDiv(FAdd(arg[v].v.bid, arg[v].v.ask), FromInt(2)))

\* three venues, in an order that is not ascending, and no venue has both the
\* median bid and the median ask
C18_Witness ==
    /\ ret.fn = "aggregate"
    /\ NumPresent(arg) = 3
    /\ FGt(arg.binance.v.bid, arg.jupiter.v.bid)
    /\ FGt(arg.jupiter.v.bid, arg.cowswap.v.bid)
    /\ \A v \in VenueNames :
           arg[v].v.bid # ret.median.v.bid \/ arg[v].v.ask # ret.median.v.ask

\* the largest timestamp of the present venues
LatestOf(p) ==
    CHOOSE m \in {p[v].v.timestamp : v \in Present(p)} :
        \A v \in Present(p) : p[v].v.timestamp <= m

\* C19: with at least one venue present, whatever the timestamps, the timestamp of
\* best_quote is the largest timestamp of the present venues and equals the
\* timestamp of median_quote.
C19_BestTimestampIsMax ==
    ret.fn = "aggregate" /\ NumPresent(arg) >= 1 =>
        /\ ret.best.v.timestamp = LatestOf(arg)
        /\ ret.best.v.timestamp = ret.median.v.timestamp

\* ------------------------------------------- properties of the tracker

\* the sum of one field over the entries of a ledger
RECURSIVE SumField(_, _)
SumField(ledger, field) ==
    IF ledger = <<>> THEN FromInt(0)
    ELSE FAdd(SumField(SubSeq(ledger, 1, Len(ledger) - 1), field),
              ledger[Len(ledger)][field])

EntriesOf(ledger, side) == SelectSeq(ledger, LAMBDA t : t.side = side)

\* the stats recomputed from a whole ledger
Recomputed(ledger) ==
    [total_pnl |-> SumField(ledger, "pnl"),
     total_trades |-> Len(ledger),
     buy_trades |-> Len(EntriesOf(ledger, "Buy")),
     sell_trades |-> Len(EntriesOf(ledger, "Sell")),
     buy_pnl |-> SumField(EntriesOf(ledger, "Buy"), "pnl"),
     sell_pnl |-> SumField(EntriesOf(ledger, "Sell"), "pnl"),
     total_notional |-> SumField(ledger, "notional_usd")]

\* record_trade applied to each entry of a ledger in turn
RECURSIVE RecordAll(_)
RecordAll(ledger) ==
    IF ledger = <<>> THEN [stats |-> PnLStats_new, trades |-> <<>>]
    ELSE LET before == RecordAll(SubSeq(ledger, 1, Len(ledger) - 1))
         IN  record_trade(before.stats, before.trades, ledger[Len(ledger)])

\* the recomputed stats of every ledger
RecomputedOf == Table([ledger \in Ledgers |-> Recomputed(ledger)])

\* what record_trade makes of every ledger
RecordedOf == Table([ledger \in Ledgers |-> RecordAll(ledger)])

\* the stats that a whole number of completed record_trade calls leaves
CompletedStats == {RecordedOf[ledger].stats : ledger \in Ledgers}

\* the f64 is a whole number
IsWhole(x) == x.k = "num" /\ (x.e >= 0 \/ BLowZero(x.m, -x.e))

\* the execution probability of a trade of TrackerTrades, in tenths
ProbTenths(t) == CHOOSE k \in 0..10 : Ratio(k, 10) = t.execution_prob

RECURSIVE SumTenths(_)
SumTenths(ledger) ==
    IF ledger = <<>> THEN 0
    ELSE SumTenths(SubSeq(ledger, 1, Len(ledger) - 1)) + ProbTenths(ledger[Len(ledger)])

\* the arithmetic mean of the execution probabilities of a ledger that is not
\* empty, as the nearest f64
MeanProb(ledger) == Ratio(SumTenths(ledger), 10 * Len(ledger))

\* the rolling average of lines 81 to 83 over the entries of a ledger in turn:
\* avg := (avg * (n - 1) + p) / n in f64, from 0.0
RECURSIVE RollingAverage(_)
RollingAverage(ledger) ==
    IF ledger = <<>> THEN FromInt(0)
    ELSE FDiv(FAdd(FMul(RollingAverage(SubSeq(ledger, 1, Len(ledger) - 1)),
                        FromInt(Len(ledger) - 1)),
                   ledger[Len(ledger)].execution_prob),
              FromInt(Len(ledger)))

\* the mean and the rolling average of every ledger
MeanProbOf == Table([ledger \in Ledgers \ {<<>>} |-> MeanProb(ledger)])

RollingAverageOf == Table([ledger \in Ledgers |-> RollingAverage(ledger)])

\* no record_trade call holds the stats
NoRecordInProgress == \A t \in TrackerTasks : ~holds_write(stats_lock, t)

\* C11 as stated: whenever no record_trade is in progress, the stats kept
\* incrementally equal the values recomputed from the whole ledger (count, sum of
\* pnl, count and sum of pnl per side, sum of notional), so that total_trades =
\* buy_trades + sell_trades and total_pnl = buy_pnl + sell_pnl.
C11_StatsMatchLedger ==
    NoRecordInProgress =>
        /\ \A f \in DOMAIN RecomputedOf[trades] : stats[f] = RecomputedOf[trades][f]
        /\ stats.total_trades = stats.buy_trades + stats.sell_trades
        /\ stats.total_pnl = FAdd(stats.buy_pnl, stats.sell_pnl)

\* C11 amended: whenever no record_trade is in progress, the stats kept
\* incrementally equal the values recomputed from the whole ledger with the sums
\* taken as f64 additions in ledger order from 0.0 (count, sum of pnl, count and sum
\* of pnl per side, sum of notional), they are what record_trade as a whole yields
\* entry after entry, and total_trades = buy_trades + sell_trades; total_pnl =
\* buy_pnl + sell_pnl when every pnl is a whole number (10 and -4 give 6), and Buy
\* 10, Sell -4, Buy 0.3 gives total_pnl 6.3 and buy_pnl + sell_pnl a different f64.
C11_StatsMatchLedgerInOrder ==
    NoRecordInProgress =>
        /\ \A f \in DOMAIN RecomputedOf[trades] : stats[f] = RecomputedOf[trades][f]
        /\ stats.total_trades = stats.buy_trades + stats.sell_trades
        /\ stats = RecordedOf[trades].stats
        /\ trades = RecordedOf[trades].trades
        /\ (\A i \in 1..Len(trades) : IsWhole(trades[i].pnl)) =>
               stats.total_pnl = FAdd(stats.buy_pnl, stats.sell_pnl)
        /\ trades = <<TradeOf("Buy", 100, 8), TradeOf("Sell", -40, 4)>> =>
               /\ stats.total_pnl = FromInt(6)
               /\ stats.total_trades = 2
               /\ stats.buy_pnl = FromInt(10)
               /\ stats.sell_pnl = FromInt(-4)
        /\ trades = <<TradeOf("Buy", 100, 8), TradeOf("Sell", -40, 4), TradeOf("Buy", 3, 9)>> =>
               /\ stats.total_pnl = Ratio(63, 10)
               /\ stats.total_pnl # FAdd(stats.buy_pnl, stats.sell_pnl)

\* the three trades are recorded: the sum of all the pnl and the sum of the sums
\* per side differ
C11_Witness ==
    /\ NoRecordInProgress
    /\ trades = <<TradeOf("Buy", 100, 8), TradeOf("Sell", -40, 4), TradeOf("Buy", 3, 9)>>
    /\ stats.total_trades = 3
    /\ stats.buy_pnl = FAdd(FromInt(10), Ratio(3, 10))
    /\ stats.sell_pnl = FromInt(-4)
    /\ stats.total_pnl = FAdd(FromInt(6), Ratio(3, 10))
    /\ FLt(stats.total_pnl, FAdd(stats.buy_pnl, stats.sell_pnl))

\* C12 as stated: whenever no record_trade is in progress, avg_execution_prob is the
\* arithmetic mean of the execution probabilities of the recorded trades (0.8 then
\* 0.4 gives 0.6), and it is 0 as long as nothing was recorded.
C12_AverageIsMean ==
    NoRecordInProgress =>
        /\ trades = <<>> => stats.avg_execution_prob = FromInt(0)
        /\ trades # <<>> => stats.avg_execution_prob = MeanProbOf[trades]
        /\ trades = <<TradeOf("Buy", 100, 8), TradeOf("Sell", -40, 4)>> =>
               stats.avg_execution_prob = Ratio(6, 10)

\* C12 amended: whenever no record_trade is in progress, avg_execution_prob is the
\* f64 that the recurrence avg := (avg * (n - 1) + p) / n yields over the recorded
\* trades in turn, n counting them from 1: 0 as long as nothing was recorded, the
\* probability of the trade after one, and after 0.8 then 0.4 the f64 of
\* (0.8 + 0.4) / 2, which is the one next above 0.6.
C12_AverageIsRolling ==
    NoRecordInProgress =>
        /\ stats.avg_execution_prob = RollingAverageOf[trades]
        /\ trades = <<>> => stats.avg_execution_prob = FromInt(0)
        /\ Len(trades) = 1 => stats.avg_execution_prob = trades[1].execution_prob
        /\ trades = <<TradeOf("Buy", 100, 8), TradeOf("Sell", -40, 4)>> =>
               /\ stats.avg_execution_prob = FDiv(FAdd(Ratio(8, 10), Ratio(4, 10)), FromInt(2))
               /\ FGt(stats.avg_execution_prob, Ratio(6, 10))
               /\ FLt(stats.avg_execution_prob, Ratio(61, 100))

\* 0.8 then 0.4 are recorded and the average is not the f64 0.6
C12_Witness ==
    /\ NoRecordInProgress
    /\ trades = <<TradeOf("Buy", 100, 8), TradeOf("Sell", -40, 4)>>
    /\ stats.total_trades = 2
    /\ stats.avg_execution_prob # Ratio(6, 10)
    /\ stats.avg_execution_prob = FDiv(FAdd(Ratio(8, 10), Ratio(4, 10)), FromInt(2))

\* the step in which a call of the given operation returns
Returns(op) == \E t \in TrackerTasks : task[t].op = op /\ task'[t] = Idle

\* C13: get_recent_trades(k) returns the last min(k, length) entries of the ledger
\* in insertion order (nothing for an empty ledger or k = 0) and leaves the ledger
\* and the stats as they are.
C13_RecentTradesIsTail ==
    [][Returns("get_recent_trades") =>
           LET k == ret'.n
               m == Min(k, Len(trades))
           IN  /\ ret'.fn = "get_recent_trades"
               /\ Len(ret'.val) = m
               /\ \A i \in 1..m : ret'.val[i] = trades[Len(trades) - m + i]
               /\ trades' = trades
               /\ stats' = stats]_vars

C13_Witness ==
    /\ ret.fn = "get_recent_trades"
    /\ ret.n = 1
    /\ Len(trades) = 2
    /\ trades[1] # trades[2]
    /\ ret.val = <<trades[2]>>

\* C14: a PnLStats returned by get_stats, whatever record_trade calls run at the
\* same time, is the stats after some whole number of completed record_trade calls,
\* so its counters and its average agree with each other.
C14_NoTornStats ==
    ret.fn = "get_stats" =>
        /\ ret.val \in history
        /\ ret.val.total_trades = ret.val.buy_trades + ret.val.sell_trades
        /\ ret.val \in CompletedStats

\* get_stats has returned while a record_trade call of another task waits for the
\* stats, after an earlier record_trade completed
C14_Witness ==
    /\ ret.fn = "get_stats"
    /\ ret.val.total_trades = 1
    /\ \E u \in TrackerTasks \ {ret.task} :
           /\ task[u].op = "record_trade"
           /\ task[u].line = 62
           /\ holds_write(stats_lock, u)

\* C20: the ledger changes only by the push of a record_trade call, which appends
\* one entry at the end and leaves the entries before it as they are; and whenever
\* no record_trade is in progress the ledger is as long as stats.total_trades.
C20_LedgerAppendOnly ==
    /\ [](NoRecordInProgress => Len(trades) = stats.total_trades)
    /\ [][trades' # trades =>
              /\ \E t \in TrackerTasks :
                     /\ task[t].op = "record_trade"
                     /\ task[t].line = 85
                     /\ task'[t].line = 86
                     /\ trades' = Append(trades, task[t].param)
              /\ Len(trades') = Len(trades) + 1
              /\ \A i \in 1..Len(trades) : trades'[i] = trades[i]]_vars

C20_Witness ==
    /\ Len(trades) = 2
    /\ trades[1] # trades[2]
    /\ NoRecordInProgress
    /\ stats.total_trades = 2
    /\ ret.fn = "get_recent_trades"

\* ------------------------------------------- properties of the system

\* the last attempt_trade of main was made on the snapshot snap
AttemptedOnSnap ==
    /\ cycle_count >= 1
    /\ pc \in {"sell", "record_buy", "record_sell", "tick", "summary", "done"}

\* C1: the store holds, for each venue, None if the venue was never written and
\* otherwise exactly the quote of the last completed write to it; a write to one
\* venue leaves the other venues' entries alone; and the snapshot get_prices returns
\* is the store of that instant.
C1_SnapshotIsLastWrites ==
    /\ [](prices = written)
    /\ [][\A v \in VenueNames :
              written'[v] # written[v] =>
                  \A u \in VenueNames \ {v} : prices'[u] = prices[u]]_vars
    /\ [][pc = "snapshot" /\ pc' # "snapshot" => snap' = written]_vars

C1_Witness ==
    /\ AttemptedOnSnap
    /\ NumPresent(snap) = 3
    /\ snap.binance # prices.binance
    /\ prices = written

\* C15: binance_stream never returns; every failed connection attempt and every loss
\* of a connection is followed by a sleep of the same RECONNECT_DELAY_SECS seconds,
\* the only way out of the sleep is a new connection attempt, and as long as the
\* process runs a sleeping stream eventually attempts to connect again.
C15_StreamRetriesForever ==
    /\ [](binance \in {"connecting", "streaming", "sleeping"})
    /\ [](binance = "sleeping" => backoff = RECONNECT_DELAY_SECS)
    /\ [][binance # "sleeping" /\ binance' # binance /\ binance' # "streaming" =>
              binance' = "sleeping" /\ backoff' = RECONNECT_DELAY_SECS]_vars
    /\ [][binance = "sleeping" /\ binance' # binance => binance' = "connecting"]_vars
    /\ (binance = "sleeping") ~> (binance = "connecting" \/ ~Running)

\* a connection was made, delivered a quote and was lost, and after the sleep the
\* stream is connecting again while the process runs
C15_Witness ==
    /\ binance = "connecting"
    /\ backoff = RECONNECT_DELAY_SECS
    /\ IsSome(prices.binance)
    /\ Running

\* C16: an entry of the store changes only when a write to that venue completes, so
\* a failed connection, a lost connection, a failed request or a reply that does not
\* parse leaves the store as it is; an entry that is Some never becomes None; a step
\* of the stream leaves main where it is; and while the runtime runs, whatever state
\* the stream is in, the stream and both pollers can take their next step, and main,
\* until it ends, is at a step of its own, waiting for no producer.
C16_FailureLeavesStore ==
    /\ [][\A v \in VenueNames :
              /\ written'[v] = written[v] => prices'[v] = prices[v]
              /\ IsSome(prices[v]) => IsSome(prices'[v])]_vars
    /\ [][binance' = "sleeping" /\ binance # "sleeping" => prices' = prices]_vars
    /\ [][binance' # binance => UNCHANGED <<pc, snap, trade, stats, trades>>]_vars
    /\ [](Running => /\ ENABLED jupiter_poll
                      /\ ENABLED cowswap_poll
                      /\ ENABLED (BinanceConnectOk \/ BinanceRead \/ BinanceRetry))
    /\ [](/\ pc = "init" => ENABLED MainStart
          /\ pc = "tick" => ENABLED MainTick
          /\ pc \notin {"done", "panicked"} =>
                 /\ Running
                 /\ pc \in {"init", "tick", "snapshot", "buy", "record_buy",
                            "sell", "record_sell", "summary"})

\* the stream lost its connection and sleeps; its entry is still the quote it wrote,
\* the other venues went on writing, and main went on to attempt a trade on all three
C16_Witness ==
    /\ binance = "sleeping"
    /\ IsSome(prices.binance)
    /\ prices.binance = written.binance
    /\ NumPresent(prices) = 3
    /\ AttemptedOnSnap
    /\ NumPresent(snap) = 3

\* C21: with main scheduled fairly, whatever the producers do, main leaves its loop
\* and ends; it leaves the loop at a tick at which elapsed has reached
\* SIMULATION_DURATION_SECS and at no other; and a step of main moves no producer
\* and writes nothing to the store.
C21_LoopTerminates ==
    /\ <>(pc = "done")
    /\ [][pc' = "summary" /\ pc # "summary" =>
              \E elapsed \in Seconds :
                  Expired(elapsed) /\ MainTickOn(Expired(elapsed))]_vars
    /\ [][\A elapsed \in Seconds :
              MainTickOn(Expired(elapsed)) =>
                  IF elapsed >= SIMULATION_DURATION_SECS
                  THEN pc' = "summary" ELSE pc' = "snapshot"]_vars
    /\ [][pc' # pc => UNCHANGED <<prices, written, binance, backoff>>]_vars

\* the attempt main makes at a position: its side, and where a fill and a miss lead
AttemptAt(at) ==
    IF at = "buy"
    THEN [side |-> "Buy", filled |-> "record_buy", skipped |-> "sell"]
    ELSE [side |-> "Sell", filled |-> "record_sell", skipped |-> "tick"]

\* C22: a cycle begins at a tick, takes one snapshot of the store and makes the Buy
\* and then the Sell attempt on that snapshot, whatever the producers write in
\* between; a fill is recorded once, right after its attempt and before the next
\* one, a miss records nothing; so after c cycles total_trades <= 2c,
\* buy_trades <= c and sell_trades <= c.
C22_OneSnapshotPerCycle ==
    /\ [](/\ stats.total_trades <= 2 * cycle_count
          /\ stats.buy_trades <= cycle_count
          /\ stats.sell_trades <= cycle_count
          /\ Len(trades) = stats.total_trades)
    /\ [][cycle_count' # cycle_count =>
              pc = "tick" /\ pc' = "snapshot" /\ cycle_count' = cycle_count + 1]_vars
    /\ [][pc = "snapshot" /\ pc' # pc => snap' = prices /\ pc' = "buy"]_vars
    /\ [][snap' # snap => pc = "snapshot"]_vars
    /\ [][(pc \in {"buy", "sell"}) /\ pc' # pc =>
              ((\E k \in LoopDrawPercents, ts \in Stamps :
                     trade' = MainAttemptTrade(trading_engine, snap, AttemptAt(pc).side,
                                               Ratio(k, 100), ts))
               /\ pc' = (IF IsSome(trade') THEN AttemptAt(pc).filled
                         ELSE AttemptAt(pc).skipped)
               /\ UNCHANGED <<trades, stats>>)]_vars
    /\ [][(pc \in {"record_buy", "record_sell"}) /\ pc' # pc =>
              (trades' = Append(trades, trade.v)
               /\ trade.v.side = (IF pc = "record_buy" THEN "Buy" ELSE "Sell")
               /\ pc' = (IF pc = "record_buy" THEN "sell" ELSE "tick"))]_vars
    /\ [][trades' # trades \/ stats' # stats =>
              pc \in {"record_buy", "record_sell"} /\ pc' # pc]_vars

\* the price of a quote on a side
SidePrice(q, side) == IF side = "Buy" THEN q.bid ELSE q.ask

\* the arguments attempt_trade passes to calculate_execution_probability on p
ProbabilityCall(p, side) ==
    [our_price |-> SidePrice(median_quote(p).v, side),
     median_price |-> SidePrice(median_quote(p).v, side),
     best_price |-> SidePrice(best_quote(p).v, side)]

AdvancedEngine == TradingEngine_new(FromInt(NOTIONAL_PER_TRADE), TRUE)

CallProbability(p, side) ==
    LET c == ProbabilityCall(p, side)
    IN  calculate_execution_probability(AdvancedEngine, c.our_price, c.median_price,
                                        c.best_price, side)

CallBranch(p, side) ==
    LET c == ProbabilityCall(p, side)
    IN  execution_branch(AdvancedEngine, c.our_price, c.median_price, c.best_price, side)

\* attempt_trade of the advanced model has returned from a snapshot with a median
AdvancedAttempted ==
    /\ ret # NoCall
    /\ ret.fn = "attempt_trade"
    /\ ret.adv
    /\ IsSome(median_quote(arg))

\* no present quote is better on the side than the median price: none has a higher
\* bid for a Buy, none a lower ask for a Sell
MedianIsBest(p, side) ==
    LET qs == PresentQuotes(p)
        m == SidePrice(median_quote(p).v, side)
    IN  \A i \in 1..Len(qs) :
            IF side = "Buy" THEN FLe(qs[i].bid, m) ELSE FGe(qs[i].ask, m)

\* what attempt_trade returned agrees with the probability prob
ReturnedWith(prob) ==
    IF executed(ret.draw, prob)
    THEN IsSome(ret.val) /\ ret.val.v.execution_prob = prob
    ELSE ret.val = None

\* C23 as stated: 0.90 exactly when the median price equals the best price of the
\* side, which is always so with one or two venues present, 0.20 otherwise; the
\* interpolation and the range <= 0 fallback are never executed.
C23_MedianQuoteBestOrFloor ==
    AdvancedAttempted =>
        /\ ReturnedWith(CallProbability(arg, ret.side))
        /\ CallProbability(arg, ret.side) \in {Ratio(90, 100), Ratio(20, 100)}
        /\ CallProbability(arg, ret.side) = Ratio(90, 100)
               <=> MedianIsBest(arg, ret.side)
        /\ NumPresent(arg) <= 2 => CallProbability(arg, ret.side) = Ratio(90, 100)
        /\ CallBranch(arg, ret.side) \in {"best", "floor"}

\* C23, amended: the advanced model yields 0.90 or 0.20 from attempt_trade, and the
\* interpolation is never executed. With a median price that is a number, it is
\* 0.90 exactly when no present quote is better on the side than the median, and
\* 0.20 by the median comparison otherwise; that is always 0.90 with one venue and
\* for a Buy with two venues, but for a Sell with two venues only when the two asks
\* are equal. With a median price that is NaN (one venue present, quoting NaN) it
\* is 0.20 by the range <= 0 fallback, the only case that executes it.
C23_MedianQuoteProbability ==
    AdvancedAttempted =>
        LET prob == CallProbability(arg, ret.side)
            branch == CallBranch(arg, ret.side)
            m == SidePrice(median_quote(arg).v, ret.side)
            qs == PresentQuotes(arg)
        IN  /\ ReturnedWith(prob)
            /\ prob \in {Ratio(90, 100), Ratio(20, 100)}
            /\ branch \in {"best", "floor", "fallback"}
            /\ prob = Ratio(90, 100) <=> branch = "best"
            /\ branch = "fallback" <=> IsNaN(m)
            /\ IsNaN(m) => NumPresent(arg) = 1
            /\ ~IsNaN(m) => (branch = "best" <=> MedianIsBest(arg, ret.side))
            /\ ~IsNaN(m) /\ NumPresent(arg) = 1 => branch = "best"
            /\ ~IsNaN(m) /\ NumPresent(arg) = 2 /\ ret.side = "Buy" => branch = "best"
            /\ ~IsNaN(m) /\ NumPresent(arg) = 2 /\ ret.side = "Sell" =>
                   (branch = "best" <=> qs[1].ask = qs[2].ask)

\* a Sell on two venues with different asks, filled at the higher ask with 0.20
C23_Witness ==
    /\ AdvancedAttempted
    /\ ret.side = "Sell"
    /\ NumPresent(arg) = 2
    /\ PresentQuotes(arg)[1].ask = FromInt(100)
    /\ PresentQuotes(arg)[2].ask = FromInt(101)
    /\ IsSome(ret.val)
    /\ ret.val.v.price = FromInt(101)
    /\ ret.val.v.execution_prob = Ratio(20, 100)

\* every price of the snapshot is a positive number
AllPositive(p) ==
    LET qs == PresentQuotes(p)
    IN  \A i \in 1..Len(qs) :
            /\ FGt(qs[i].bid, FromInt(0)) /\ ~IsInf(qs[i].bid)
            /\ FGt(qs[i].ask, FromInt(0)) /\ ~IsInf(qs[i].ask)

NonNegative(x) == FGe(x, FromInt(0))

\* x >= y of two numbers, by the sign of their difference
NotBelow(x, y) == NonNegative(FSub(x, y))

\* C24: a Trade attempt_trade returns from a snapshot of positive prices has
\* pnl >= 0, whichever the side; so every entry of the ledger has pnl >= 0, and
\* total_pnl, buy_pnl and sell_pnl are never negative and never decrease.
C24_PnlNeverNegative ==
    /\ [](AllPositive(prices) /\ (snap # None => AllPositive(snap)))
    /\ [](IsSome(trade) => NonNegative(trade.v.pnl))
    /\ [](\A i \in 1..Len(trades) : NonNegative(trades[i].pnl))
    /\ [](/\ NonNegative(stats.total_pnl)
          /\ NonNegative(stats.buy_pnl)
          /\ NonNegative(stats.sell_pnl))
    /\ [][/\ NotBelow(stats'.total_pnl, stats.total_pnl)
          /\ NotBelow(stats'.buy_pnl, stats.buy_pnl)
          /\ NotBelow(stats'.sell_pnl, stats.sell_pnl)]_vars
    /\ [][(pc \in {"buy", "sell"}) /\ pc' # pc /\ IsSome(trade') =>
              trade'.v.pnl = FMul(IF pc = "buy"
                                  THEN FSub(best_quote(snap).v.bid, median_quote(snap).v.bid)
                                  ELSE FSub(median_quote(snap).v.ask, best_quote(snap).v.ask),
                                  trade'.v.amount_eth)]_vars

\* both sides have recorded a positive pnl: the three venues differ, so the best
\* bid is above the median bid and the best ask below the median ask
C24_Witness ==
    /\ pc = "done"
    /\ snap # None
    /\ NumPresent(snap) = 3
    /\ FGt(stats.buy_pnl, FromInt(0))
    /\ FGt(stats.sell_pnl, FromInt(0))
    /\ stats.total_pnl = FAdd(stats.buy_pnl, stats.sell_pnl)
    /\ \E i \in 1..Len(trades) : trades[i].pnl = FromInt(0)

\* task t holds lock l or is queued for it
Uses(l, t) ==
    \/ l.writer = t
    \/ t \in l.readers
    \/ \E i \in 1..Len(l.waiting) : l.waiting[i].task = t

\* task t holds or awaits l for writing / for reading
UsesWrite(l, t) ==
    \/ l.writer = t
    \/ \E i \in 1..Len(l.waiting) : l.waiting[i] = [task |-> t, mode |-> "write"]

UsesRead(l, t) ==
    \/ t \in l.readers
    \/ \E i \in 1..Len(l.waiting) : l.waiting[i] = [task |-> t, mode |-> "read"]

\* C25: record_trade takes the stats write guard and then, holding it, the ledger
\* write guard, which it holds until it drops it at its end, before the stats
\* guard; get_stats (and with it print_trade and print_summary) uses only the
\* stats lock, for reading, and get_recent_trades only the ledger lock, for
\* reading; an idle task uses no lock; whenever an operation is in progress some
\* task is at a statement or can take the step it waits for; and every started
\* operation returns.
C25_TrackerDeadlockFree ==
    /\ [](\A t \in TrackerTasks :
             /\ task[t] = Idle => ~Uses(stats_lock, t) /\ ~Uses(trades_lock, t)
             /\ task[t].op = "record_trade" =>
                    /\ UsesWrite(stats_lock, t) /\ ~UsesRead(stats_lock, t)
                    /\ ~UsesRead(trades_lock, t)
                    /\ Uses(trades_lock, t) => holds_write(stats_lock, t)
                    /\ holds_write(stats_lock, t) \/ task[t].line = 62
                    /\ task[t].line = 62 => ~Uses(trades_lock, t)
                    /\ task[t].line \notin {62, 86} => Uses(trades_lock, t)
                    /\ task[t].line \notin {62, 63, 86} => holds_write(trades_lock, t)
                    /\ task[t].line = 86 =>
                           holds_write(trades_lock, t) \/ ~Uses(trades_lock, t)
             /\ task[t].op = "get_stats" =>
                    UsesRead(stats_lock, t) /\ ~UsesWrite(stats_lock, t)
                                           /\ ~Uses(trades_lock, t)
             /\ task[t].op = "get_recent_trades" =>
                    UsesRead(trades_lock, t) /\ ~UsesWrite(trades_lock, t)
                                            /\ ~Uses(stats_lock, t))
    /\ []((\E t \in TrackerTasks : task[t] # Idle) =>
              \E t \in TrackerTasks :
                  \/ task[t].op = "record_trade" /\ task[t].line \in StatementLines
                  \/ ENABLED TrackerStep(t))
    /\ [][\A t \in TrackerTasks :
              task[t].op = "record_trade" /\ task[t].line \in StatementLines
                  /\ task'[t] # task[t] => StatementStep(t)]_vars
    /\ \A t \in TrackerTasks : (task[t] # Idle) ~> (task[t] = Idle)

\* a recorder at its end has dropped the ledger guard and still holds the stats
\* guard; the other task, whose get_stats returned before, reads the ledger with the
\* new entry under the read guard it was granted in between
C25_Witness ==
    /\ ret # NoCall
    /\ ret.fn = "get_stats"
    /\ \E t, u \in TrackerTasks :
           /\ task[t].op = "record_trade"
           /\ task[t].line = 86
           /\ holds_write(stats_lock, t)
           /\ ~Uses(trades_lock, t)
           /\ ret.task = u
           /\ task[u].op = "get_recent_trades"
           /\ holds_read(trades_lock, u)
           /\ Len(trades) = 1

\* C2: attempt_trade on a snapshot with no venue present returns None for both
\* sides; and as long as no venue has delivered a quote the ledger stays empty, the
\* stats stay at their initial values and main does not unwind.
C2_NoVenueNoTrade ==
    /\ AttemptedOnSnap /\ NumPresent(snap) = 0 => trade = None
    /\ written = AggregatedPrices_new =>
           /\ trades = <<>>
           /\ stats = PnLStats_new
           /\ pc # "panicked"

C2_Witness ==
    /\ pc = "done"
    /\ cycle_count >= 2
    /\ written = AggregatedPrices_new
    /\ trade = None
    /\ trades = <<>>

====
